---- MODULE Spec2Model ----
(***************************************************************************)
(* Verification model of payflow's two engines:                            *)
(*   - AgentMonitor   (src/app/monitoring.py): the bounded event log, the  *)
(*     session map, the subscriber list and the lock, driven by threads;   *)
(*   - event_stream   (src/app/views.py): the polling streaming adapter;   *)
(*   - PayrollVariableGraph (src/payroll_variable_agent.py): the variable  *)
(*     registry and the networkx DiGraph of calculation nodes.             *)
(*                                                                         *)
(* Opaque text payloads that take part in no decision (description,        *)
(* user_id, message, legal_reference, docstrings) are not carried.         *)
(* Time is a discrete clock `now`; datetime.now() reads it.                *)
(***************************************************************************)
EXTENDS Integers, Sequences, FiniteSets, TLC

(***************************************************************************)
(* Bounds of the model                                                     *)
(***************************************************************************)
\* deque(maxlen=1000) of monitoring.py:31, scaled down
Capacity == 2
\* number of Monitor calls started in one behaviour
MaxCalls == 3
\* last value of the clock
MaxTime == 1
\* length of the subscriber list
MaxSubs == 2

Threads == {"t1", "t2"}
SessionIds == {"s1", "s2"}
Callbacks == {"c1", "c2"}
EndStatuses == {"completed", "failed"}
Levels == {"info"}
AgentTypes == {"agentA"}
ClearAges == {0, 1}

None == "None"
\* an event payload json.dumps cannot encode (a set, a datetime, an object)
Unserializable == "object"
NoTime == -1
EmptyMap == [x \in {} |-> None]

(***************************************************************************)
(* Monitor state                                                           *)
(***************************************************************************)
VARIABLES
    events,           \* self.events: the deque, oldest first
    subscribers,      \* self.subscribers: list of callbacks
    active_sessions,  \* self.active_sessions: session id -> record
    lock,             \* self.lock: the owning thread, or None
    now,              \* the clock read by datetime.now()
    pc,               \* position of each thread inside its current call
    call,             \* the current (or last) call of each thread and its arguments
    loc,              \* local variables of the call
    result,           \* how the last call of each thread ended
    \* history variables
    appended,         \* number of events ever appended (the last sequence number)
    clearedIds,       \* sequence numbers dropped by clear_old_events
    logged,           \* per session: log_agent_action calls that found it registered
    expected,         \* appends owed by the calls started so far
    gh,               \* per thread: snapshot at lock acquisition, callbacks invoked
    calls             \* number of calls started

monVars == <<events, subscribers, active_sessions, lock, now, pc, call, loc,
             result, appended, clearedIds, logged, expected, gh, calls>>

(***************************************************************************)
(* Streaming adapter state (event_stream of api_monitoring_stream)         *)
(***************************************************************************)
VARIABLES
    spc,               \* position of the generator
    last_event_count,  \* its local last_event_count
    current_count,     \* its local current_count
    emitted,           \* history: sequence numbers of the events yielded so far
    marks,             \* history: `appended` at the last two reads of len(monitor.events),
                       \* and whether an append fell between the last read and its delta
    yielded            \* history: kinds of the messages yielded by the replay, then by
                       \* the current iteration of the loop

streamVars == <<spc, last_event_count, current_count, emitted, marks, yielded>>

(***************************************************************************)
(* Graph engine state (PayrollVariableGraph)                               *)
(***************************************************************************)
VARIABLES
    nodes,                   \* self.graph nodes: node id -> attributes
    edges,                   \* self.graph edges: <<from, to>> -> attributes
    function_registry,       \* self._function_registry: node id -> function
    input_variables,         \* self._variable_registry['input_variables']
    intermediate_variables,  \* self._variable_registry['intermediate_variables']
    impact_source,           \* self._impact_source
    last,                    \* history: the last engine call, its outcome, the state before it
    gcalls                   \* number of engine calls made

engineVars == <<nodes, edges, function_registry, input_variables,
                intermediate_variables, impact_source>>

graphVars == <<engineVars, last, gcalls>>

(***************************************************************************)
(* The AgentMonitor class and its one instance                             *)
(***************************************************************************)
VARIABLES
    instance,      \* AgentMonitor._instance
    initialized    \* whether the instance has the attribute `initialized`

classVars == <<instance, initialized>>

vars == <<monVars, streamVars, graphVars, classVars>>

(***************************************************************************)
(* Events and sessions                                                     *)
(***************************************************************************)
\* `seq` is a history field: the position of the event in the append order.
NoEvent ==
    [session_id |-> None, type |-> None, agent_type |-> None, action |-> None,
     level |-> None, timestamp |-> NoTime, data |-> None, seq |-> 0]

SessionStartEvent(s, t) ==
    [session_id |-> s, type |-> "session_start", agent_type |-> None,
     action |-> None, level |-> "info", timestamp |-> t, data |-> None, seq |-> 0]

\* a session_end event built with the type of session_start
SessionEndEventAsStart(s, status, t) ==
    [session_id |-> s, type |-> "session_start", agent_type |-> None,
     action |-> None, level |-> "info", timestamp |-> t, data |-> status, seq |-> 0]

SessionEndEvent(s, status, t) ==
    [session_id |-> s, type |-> "session_end", agent_type |-> None,
     action |-> None, level |-> "info", timestamp |-> t, data |-> status, seq |-> 0]

AgentActionEvent(s, agent, action, level, t) ==
    [session_id |-> s, type |-> "agent_action", agent_type |-> agent,
     action |-> action, level |-> level, timestamp |-> t, data |-> None, seq |-> 0]

NewSession(s, t) ==
    [id |-> s, started_at |-> t, status |-> "active", events_count |-> 0,
     last_activity |-> t, ended_at |-> NoTime]

NoCall ==
    [op |-> None, sid |-> None, agent |-> None, action |-> None, level |-> None,
     status |-> None, age |-> 0, limit |-> 0, cb |-> None]

NoLoc ==
    [ev |-> NoEvent, tmp |-> 0, i |-> 0, cutoff |-> 0, recent |-> <<>>,
     snap |-> <<>>, ret |-> <<>>, self |-> None, stats |-> EmptyMap]

NoPre == [sessions |-> EmptyMap, events |-> <<>>, appended |-> 0]

\* `stable`: the callbacks subscribed without interruption since the lock was taken
NoGh ==
    [pre |-> NoPre, notified |-> <<>>, raised |-> FALSE, subsChanged |-> FALSE,
     stable |-> {}]

(***************************************************************************)
(* Sequence helpers                                                        *)
(***************************************************************************)
SeqIds(s) == [k \in 1..Len(s) |-> s[k].seq]

Range(s) == {s[k] : k \in 1..Len(s)}

\* a full deque that drops its rightmost item instead
DequeAppendNewestOut(q, e) ==
    IF Len(q) >= Capacity THEN Append(SubSeq(q, 1, Len(q) - 1), e) ELSE Append(q, e)

\* deque.append with maxlen: a full deque drops its leftmost item
DequeAppend(q, e) ==
    IF Len(q) >= Capacity THEN Append(Tail(q), e) ELSE Append(q, e)

RECURSIVE DequeExtend(_, _)
DequeExtend(q, s) ==
    IF s = <<>> THEN q ELSE DequeExtend(DequeAppend(q, Head(s)), Tail(s))

\* list.remove(x): removes the first occurrence
RECURSIVE RemoveFirst(_, _)
RemoveFirst(s, x) ==
    IF s = <<>> THEN <<>>
    ELSE IF Head(s) = x THEN Tail(s)
         ELSE <<Head(s)>> \o RemoveFirst(Tail(s), x)

\* events[-limit:] as Python slices it
SliceLast(s, limit) ==
    LET n == Len(s)
        start == IF limit = 0 THEN 0
                 ELSE IF limit > 0 THEN (IF n - limit < 0 THEN 0 ELSE n - limit)
                 ELSE (IF -limit > n THEN n ELSE -limit)
    IN  SubSeq(s, start + 1, n)

MonInit ==
    /\ events = <<>>
    /\ subscribers = <<>>
    /\ active_sessions = EmptyMap
    /\ lock = None
    /\ now = 0
    /\ pc = [t \in Threads |-> "idle"]
    /\ call = [t \in Threads |-> NoCall]
    /\ loc = [t \in Threads |-> NoLoc]
    /\ result = [t \in Threads |-> "none"]
    /\ appended = 0
    /\ clearedIds = {}
    /\ logged = [s \in SessionIds |-> 0]
    /\ expected = 0
    /\ gh = [t \in Threads |-> NoGh]
    /\ calls = 0

(***************************************************************************)
(* Monitor operations, one step per atomic piece of a call                 *)
(***************************************************************************)
\* a lock that is granted to every caller
CanAcquireAlways(t) == lock \in Threads \cup {None}

\* `with self.lock:` -- a threading.Lock is granted only while nobody holds it
CanAcquire(t) == lock = None

\* a callback error that is not caught
CallbackErrorPropagates == FALSE

\* `except Exception as e: logger.error(...)` around each callback
CallbackErrorCaught == TRUE

\* first statement inside the `with self.lock:` block of each method
BodyStart(op) ==
    CASE op = "start_session" -> "ss_set"
      [] op = "end_session" -> "es_check"
      [] op = "log_agent_action" -> "la_check"
      [] op = "clear_old_events" -> "co_clear"
      [] op = "get_recent_events" -> "gr_copy"
      [] op = "get_session_stats" -> "st_body"

BeginCall(t, c) ==
    /\ pc[t] = "idle"
    /\ calls < MaxCalls
    /\ calls' = calls + 1
    /\ call' = [call EXCEPT ![t] = c]
    /\ result' = [result EXCEPT ![t] = "none"]
    /\ gh' = [gh EXCEPT ![t] = NoGh]

\* start_session(session_id, ...) is entered
CallStartSession(t, s) ==
    /\ BeginCall(t, [NoCall EXCEPT !.op = "start_session", !.sid = s])
    /\ pc' = [pc EXCEPT ![t] = "acquire"]
    /\ loc' = [loc EXCEPT ![t] = NoLoc]
    /\ expected' = expected + 1
    /\ UNCHANGED <<events, subscribers, active_sessions, lock, now, appended,
                   clearedIds, logged>>
    /\ UNCHANGED <<streamVars, graphVars, classVars>>

\* end_session(session_id, status) is entered
CallEndSession(t, s, st) ==
    /\ BeginCall(t, [NoCall EXCEPT !.op = "end_session", !.sid = s, !.status = st])
    /\ pc' = [pc EXCEPT ![t] = "acquire"]
    /\ loc' = [loc EXCEPT ![t] = NoLoc]
    /\ UNCHANGED <<events, subscribers, active_sessions, lock, now, appended,
                   clearedIds, logged, expected>>
    /\ UNCHANGED <<streamVars, graphVars, classVars>>

\* log_agent_action builds its event, timestamp included, before taking the lock
CallLogAction(t, s, agent, lvl) ==
    /\ BeginCall(t, [NoCall EXCEPT !.op = "log_agent_action", !.sid = s,
                                   !.agent = agent, !.action = "act", !.level = lvl])
    /\ pc' = [pc EXCEPT ![t] = "acquire"]
    /\ loc' = [loc EXCEPT ![t] =
                 [NoLoc EXCEPT !.ev = AgentActionEvent(s, agent, "act", lvl, now)]]
    /\ expected' = expected + 1
    /\ UNCHANGED <<events, subscribers, active_sessions, lock, now, appended,
                   clearedIds, logged>>
    /\ UNCHANGED <<streamVars, graphVars, classVars>>

\* log_agent_action(..., data=data) with a payload of the caller's
CallLogActionData(t, s, agent, lvl, data) ==
    /\ BeginCall(t, [NoCall EXCEPT !.op = "log_agent_action", !.sid = s,
                                   !.agent = agent, !.action = "act", !.level = lvl])
    /\ pc' = [pc EXCEPT ![t] = "acquire"]
    /\ loc' = [loc EXCEPT ![t] =
                 [NoLoc EXCEPT !.ev = [AgentActionEvent(s, agent, "act", lvl, now)
                                          EXCEPT !.data = data]]]
    /\ expected' = expected + 1
    /\ UNCHANGED <<events, subscribers, active_sessions, lock, now, appended,
                   clearedIds, logged>>
    /\ UNCHANGED <<streamVars, graphVars, classVars>>

\* log_error delegates to log_agent_action with action='error', level='error'
CallLogError(t, s, agent) ==
    /\ BeginCall(t, [NoCall EXCEPT !.op = "log_agent_action", !.sid = s,
                                   !.agent = agent, !.action = "error",
                                   !.level = "error"])
    /\ pc' = [pc EXCEPT ![t] = "acquire"]
    /\ loc' = [loc EXCEPT ![t] =
                 [NoLoc EXCEPT !.ev = AgentActionEvent(s, agent, "error", "error", now)]]
    /\ expected' = expected + 1
    /\ UNCHANGED <<events, subscribers, active_sessions, lock, now, appended,
                   clearedIds, logged>>
    /\ UNCHANGED <<streamVars, graphVars, classVars>>

\* clear_old_events computes its cutoff before taking the lock
CallClearOldEvents(t, age) ==
    /\ BeginCall(t, [NoCall EXCEPT !.op = "clear_old_events", !.age = age])
    /\ pc' = [pc EXCEPT ![t] = "acquire"]
    /\ loc' = [loc EXCEPT ![t] = [NoLoc EXCEPT !.cutoff = now - age]]
    /\ UNCHANGED <<events, subscribers, active_sessions, lock, now, appended,
                   clearedIds, logged, expected>>
    /\ UNCHANGED <<streamVars, graphVars, classVars>>

\* entering a `with self.lock:` block
Acquire(t) ==
    /\ pc[t] = "acquire"
    /\ CanAcquire(t)
    /\ lock' = t
    /\ pc' = [pc EXCEPT ![t] = BodyStart(call[t].op)]
    /\ gh' = [gh EXCEPT ![t].pre = [sessions |-> active_sessions,
                                    events |-> events, appended |-> appended],
                        ![t].stable = Range(subscribers)]
    /\ UNCHANGED <<events, subscribers, active_sessions, now, call, loc, result,
                   appended, clearedIds, logged, expected, calls>>
    /\ UNCHANGED <<streamVars, graphVars, classVars>>

\* start_session: the session record is (over)written, then the event is built
StartSessionSet(t) ==
    /\ pc[t] = "ss_set"
    /\ LET s == call[t].sid IN
        /\ active_sessions' = (s :> NewSession(s, now)) @@ active_sessions
        /\ logged' = [logged EXCEPT ![s] = 0]
        /\ loc' = [loc EXCEPT ![t].ev = SessionStartEvent(s, now)]
    /\ pc' = [pc EXCEPT ![t] = "add_event"]
    /\ UNCHANGED <<events, subscribers, lock, now, call, result, appended,
                   clearedIds, expected, gh, calls>>
    /\ UNCHANGED <<streamVars, graphVars, classVars>>

\* end_session on a registered id
EndSessionKnown(t) ==
    /\ pc[t] = "es_check"
    /\ call[t].sid \in DOMAIN active_sessions
    /\ LET s == call[t].sid IN
        /\ active_sessions' = [active_sessions EXCEPT ![s].status = call[t].status,
                                                      ![s].ended_at = now]
        /\ loc' = [loc EXCEPT ![t].ev = SessionEndEvent(s, call[t].status, now)]
    /\ expected' = expected + 1
    /\ pc' = [pc EXCEPT ![t] = "add_event"]
    /\ UNCHANGED <<events, subscribers, lock, now, call, result, appended,
                   clearedIds, logged, gh, calls>>
    /\ UNCHANGED <<streamVars, graphVars, classVars>>

\* end_session on an id that is not registered: the `if` body is skipped
EndSessionUnknown(t) ==
    /\ pc[t] = "es_check"
    /\ call[t].sid \notin DOMAIN active_sessions
    /\ pc' = [pc EXCEPT ![t] = "release"]
    /\ UNCHANGED <<events, subscribers, active_sessions, lock, now, call, loc,
                   result, appended, clearedIds, logged, expected, gh, calls>>
    /\ UNCHANGED <<streamVars, graphVars, classVars>>

\* log_agent_action: `if session_id in self.active_sessions`, then the read of
\* events_count for `+= 1`
LogActionKnown(t) ==
    /\ pc[t] = "la_check"
    /\ call[t].sid \in DOMAIN active_sessions
    /\ loc' = [loc EXCEPT ![t].tmp = active_sessions[call[t].sid].events_count]
    /\ logged' = [logged EXCEPT ![call[t].sid] = @ + 1]
    /\ pc' = [pc EXCEPT ![t] = "la_incr"]
    /\ UNCHANGED <<events, subscribers, active_sessions, lock, now, call, result,
                   appended, clearedIds, expected, gh, calls>>
    /\ UNCHANGED <<streamVars, graphVars, classVars>>

LogActionUnknown(t) ==
    /\ pc[t] = "la_check"
    /\ call[t].sid \notin DOMAIN active_sessions
    /\ pc' = [pc EXCEPT ![t] = "add_event"]
    /\ UNCHANGED <<events, subscribers, active_sessions, lock, now, call, loc,
                   result, appended, clearedIds, logged, expected, gh, calls>>
    /\ UNCHANGED <<streamVars, graphVars, classVars>>

\* the write of `events_count += 1`, then last_activity
LogActionIncr(t) ==
    /\ pc[t] = "la_incr"
    /\ active_sessions' = [active_sessions EXCEPT
                             ![call[t].sid].events_count = loc[t].tmp + 1,
                             ![call[t].sid].last_activity = now]
    /\ pc' = [pc EXCEPT ![t] = "add_event"]
    /\ UNCHANGED <<events, subscribers, lock, now, call, loc, result, appended,
                   clearedIds, logged, expected, gh, calls>>
    /\ UNCHANGED <<streamVars, graphVars, classVars>>

\* _add_event: self.events.append(event), then the loop over the subscribers starts
AddEvent(t) ==
    /\ pc[t] = "add_event"
    /\ LET e == [loc[t].ev EXCEPT !.seq = appended + 1] IN
        /\ events' = DequeAppend(events, e)
        /\ loc' = [loc EXCEPT ![t].ev = e, ![t].i = 1]
    /\ appended' = appended + 1
    /\ pc' = [pc EXCEPT ![t] = "notify"]
    /\ UNCHANGED <<subscribers, active_sessions, lock, now, call, result,
                   clearedIds, logged, expected, gh, calls>>
    /\ UNCHANGED <<streamVars, graphVars, classVars>>

\* _add_event: the next callback of the list is invoked and returns
NotifyReturn(t) ==
    /\ pc[t] = "notify"
    /\ loc[t].i <= Len(subscribers)
    /\ gh' = [gh EXCEPT ![t].notified = Append(@, subscribers[loc[t].i])]
    /\ loc' = [loc EXCEPT ![t].i = @ + 1]
    /\ UNCHANGED <<events, subscribers, active_sessions, lock, now, pc, call,
                   result, appended, clearedIds, logged, expected, calls>>
    /\ UNCHANGED <<streamVars, graphVars, classVars>>

\* _add_event: the next callback of the list is invoked and raises
NotifyRaise(t) ==
    /\ pc[t] = "notify"
    /\ loc[t].i <= Len(subscribers)
    /\ gh' = [gh EXCEPT ![t].notified = Append(@, subscribers[loc[t].i]),
                        ![t].raised = TRUE]
    /\ IF CallbackErrorCaught
       THEN /\ loc' = [loc EXCEPT ![t].i = @ + 1]
            /\ UNCHANGED <<lock, pc, result>>
       ELSE \* the exception leaves the `with` block and reaches the caller
            /\ lock' = None
            /\ pc' = [pc EXCEPT ![t] = "idle"]
            /\ result' = [result EXCEPT ![t] = "callback_error"]
            /\ UNCHANGED loc
    /\ UNCHANGED <<events, subscribers, active_sessions, now, call, appended,
                   clearedIds, logged, expected, calls>>
    /\ UNCHANGED <<streamVars, graphVars, classVars>>

\* _add_event: the loop over the subscribers is exhausted
NotifyDone(t) ==
    /\ pc[t] = "notify"
    /\ loc[t].i > Len(subscribers)
    /\ pc' = [pc EXCEPT ![t] = "release"]
    /\ UNCHANGED <<events, subscribers, active_sessions, lock, now, call, loc,
                   result, appended, clearedIds, logged, expected, gh, calls>>
    /\ UNCHANGED <<streamVars, graphVars, classVars>>

\* leaving the `with self.lock:` block; the call returns
Release(t) ==
    /\ pc[t] = "release"
    /\ lock' = None
    /\ pc' = [pc EXCEPT ![t] = "idle"]
    /\ result' = [result EXCEPT ![t] = "ok"]
    /\ call' = [call EXCEPT ![t] = NoCall]
    /\ loc' = [loc EXCEPT ![t] = NoLoc]
    /\ gh' = [gh EXCEPT ![t] = NoGh]
    /\ UNCHANGED <<events, subscribers, active_sessions, now, appended,
                   clearedIds, logged, expected, calls>>
    /\ UNCHANGED <<streamVars, graphVars, classVars>>

\* a filter that also keeps the events stamped at the cutoff
IsRecentOrAtCutoff(e, cutoff) == e.timestamp >= cutoff

\* `if event_time > cutoff_time`
IsRecent(e, cutoff) == e.timestamp > cutoff

\* clear_old_events: the loop that keeps the recent events, then self.events.clear()
ClearFilter(t) ==
    /\ pc[t] = "co_clear"
    /\ LET Recent(e) == IsRecent(e, loc[t].cutoff)
           Old(e) == ~Recent(e)
       IN  /\ loc' = [loc EXCEPT ![t].recent = SelectSeq(events, Recent)]
           /\ clearedIds' = clearedIds \cup {e.seq : e \in Range(SelectSeq(events, Old))}
    /\ events' = <<>>
    /\ pc' = [pc EXCEPT ![t] = "co_extend"]
    /\ UNCHANGED <<subscribers, active_sessions, lock, now, call, result,
                   appended, logged, expected, gh, calls>>
    /\ UNCHANGED <<streamVars, graphVars, classVars>>

\* a clear_old_events that sets every events_count to the number of events the
\* session has left in the log
ClearExtendRecounting(t) ==
    /\ pc[t] = "co_extend"
    /\ events' = DequeExtend(events, loc[t].recent)
    /\ active_sessions' =
          [s \in DOMAIN active_sessions |->
              [active_sessions[s] EXCEPT !.events_count =
                  Cardinality({k \in 1..Len(loc[t].recent) :
                                  loc[t].recent[k].session_id = s})]]
    /\ pc' = [pc EXCEPT ![t] = "release"]
    /\ UNCHANGED <<subscribers, lock, now, call, loc, result,
                   appended, clearedIds, logged, expected, gh, calls>>
    /\ UNCHANGED <<streamVars, graphVars, classVars>>

\* clear_old_events: self.events.extend(recent_events)
ClearExtend(t) ==
    /\ pc[t] = "co_extend"
    /\ events' = DequeExtend(events, loc[t].recent)
    /\ pc' = [pc EXCEPT ![t] = "release"]
    /\ UNCHANGED <<subscribers, active_sessions, lock, now, call, loc, result,
                   appended, clearedIds, logged, expected, gh, calls>>
    /\ UNCHANGED <<streamVars, graphVars, classVars>>

\* history: the subscriber list changed after thread u started its loop over it
MarkChanged(t) ==
    [u \in Threads |->
        IF u = t THEN NoGh
        ELSE IF pc[u] \in {"notify", "release"} THEN [gh[u] EXCEPT !.subsChanged = TRUE]
        ELSE gh[u]]

\* subscribe(callback): no lock is taken
Subscribe(t, cb) ==
    /\ pc[t] = "idle"
    /\ Len(subscribers) < MaxSubs
    /\ subscribers' = Append(subscribers, cb)
    /\ gh' = MarkChanged(t)
    /\ result' = [result EXCEPT ![t] = "ok"]
    /\ UNCHANGED <<events, active_sessions, lock, now, pc, call, loc, appended,
                   clearedIds, logged, expected, calls>>
    /\ UNCHANGED <<streamVars, graphVars, classVars>>

\* unsubscribe(callback): `if callback in self.subscribers` is false
UnsubscribeAbsent(t, cb) ==
    /\ pc[t] = "idle"
    /\ cb \notin Range(subscribers)
    /\ result' = [result EXCEPT ![t] = "ok"]
    /\ UNCHANGED <<events, subscribers, active_sessions, lock, now, pc, call, loc,
                   appended, clearedIds, logged, expected, gh, calls>>
    /\ UNCHANGED <<streamVars, graphVars, classVars>>

\* unsubscribe(callback): `if callback in self.subscribers` is true
UnsubscribeCheck(t, cb) ==
    /\ pc[t] = "idle"
    /\ cb \in Range(subscribers)
    /\ call' = [call EXCEPT ![t] = [NoCall EXCEPT !.op = "unsubscribe", !.cb = cb]]
    /\ result' = [result EXCEPT ![t] = "none"]
    /\ gh' = [gh EXCEPT ![t] = NoGh]
    /\ pc' = [pc EXCEPT ![t] = "un_remove"]
    /\ loc' = [loc EXCEPT ![t] = NoLoc]
    /\ UNCHANGED <<events, subscribers, active_sessions, lock, now, appended,
                   clearedIds, logged, expected, calls>>
    /\ UNCHANGED <<streamVars, graphVars, classVars>>

\* unsubscribe(callback): self.subscribers.remove(callback)
UnsubscribeRemove(t) ==
    /\ pc[t] = "un_remove"
    /\ call[t].cb \in Range(subscribers)
    /\ subscribers' = RemoveFirst(subscribers, call[t].cb)
    /\ gh' = [u \in Threads |->
                [MarkChanged(t)[u] EXCEPT !.stable = @ \ {call[t].cb}]]
    /\ pc' = [pc EXCEPT ![t] = "idle"]
    /\ result' = [result EXCEPT ![t] = "ok"]
    /\ call' = [call EXCEPT ![t] = NoCall]
    /\ UNCHANGED <<events, active_sessions, lock, now, loc, appended,
                   clearedIds, logged, expected, calls>>
    /\ UNCHANGED <<streamVars, graphVars, classVars>>

\* unsubscribe(callback): another thread removed the callback after the test;
\* list.remove raises ValueError
UnsubscribeRace(t) ==
    /\ pc[t] = "un_remove"
    /\ call[t].cb \notin Range(subscribers)
    /\ pc' = [pc EXCEPT ![t] = "idle"]
    /\ result' = [result EXCEPT ![t] = "ValueError"]
    /\ call' = [call EXCEPT ![t] = NoCall]
    /\ UNCHANGED <<events, subscribers, active_sessions, lock, now, loc,
                   appended, clearedIds, logged, expected, gh, calls>>
    /\ UNCHANGED <<streamVars, graphVars, classVars>>

\* get_recent_events(limit, session_id, level) as it filters a snapshot
GetRecent(evs, limit, sid, lvl) ==
    LET BySession(e) == e.session_id = sid
        ByLevel(e) == e.level = lvl
        e1 == IF sid # None THEN SelectSeq(evs, BySession) ELSE evs
        e2 == IF lvl # None THEN SelectSeq(e1, ByLevel) ELSE e1
    IN  SliceLast(e2, limit)

\* get_recent_events is entered
CallGetRecentEvents(t, limit, sid, lvl) ==
    /\ BeginCall(t, [NoCall EXCEPT !.op = "get_recent_events", !.limit = limit,
                                   !.sid = sid, !.level = lvl])
    /\ pc' = [pc EXCEPT ![t] = "acquire"]
    /\ loc' = [loc EXCEPT ![t] = NoLoc]
    /\ UNCHANGED <<events, subscribers, active_sessions, lock, now, appended,
                   clearedIds, logged, expected>>
    /\ UNCHANGED <<streamVars, graphVars, classVars>>

\* get_recent_events: `events = list(self.events)` and the end of the with block
GetRecentCopy(t) ==
    /\ pc[t] = "gr_copy"
    /\ loc' = [loc EXCEPT ![t].snap = events]
    /\ lock' = None
    /\ pc' = [pc EXCEPT ![t] = "gr_filter"]
    /\ UNCHANGED <<events, subscribers, active_sessions, now, call, result,
                   appended, clearedIds, logged, expected, gh, calls>>
    /\ UNCHANGED <<streamVars, graphVars, classVars>>

\* get_recent_events: the two filters and the slice, outside the lock
GetRecentFilter(t) ==
    /\ pc[t] = "gr_filter"
    /\ loc' = [loc EXCEPT ![t].ret = GetRecent(loc[t].snap, call[t].limit,
                                               call[t].sid, call[t].level)]
    /\ pc' = [pc EXCEPT ![t] = "gr_return"]
    /\ UNCHANGED <<events, subscribers, active_sessions, lock, now, call, result,
                   appended, clearedIds, logged, expected, gh, calls>>
    /\ UNCHANGED <<streamVars, graphVars, classVars>>

\* get_recent_events: `return events[-limit:]` hands the list to the caller
GetRecentReturn(t) ==
    /\ pc[t] = "gr_return"
    /\ pc' = [pc EXCEPT ![t] = "idle"]
    /\ result' = [result EXCEPT ![t] = "ok"]
    /\ call' = [call EXCEPT ![t] = NoCall]
    /\ loc' = [loc EXCEPT ![t] = NoLoc]
    /\ gh' = [gh EXCEPT ![t] = NoGh]
    /\ UNCHANGED <<events, subscribers, active_sessions, lock, now, appended,
                   clearedIds, logged, expected, calls>>
    /\ UNCHANGED <<streamVars, graphVars, classVars>>

\* time passes
Tick ==
    /\ now < MaxTime
    /\ now' = now + 1
    /\ UNCHANGED <<events, subscribers, active_sessions, lock, pc, call, loc,
                   result, appended, clearedIds, logged, expected, gh, calls>>
    /\ UNCHANGED <<streamVars, graphVars, classVars>>

Limits == 0..(Capacity + 1)
SessionFilters == {None, "s1"}
LevelFilters == {None, "error"}

(***************************************************************************)
(* Construction (AgentMonitor.__new__, __init__; `monitor = AgentMonitor()`)*)
(***************************************************************************)
\* the object bound to the module-level name `monitor`
TheMonitor == "monitor"

\* the import of app.monitoring has run `monitor = AgentMonitor()`: the class
\* holds its instance and __init__ has completed on it
ClassInit ==
    /\ instance = TheMonitor
    /\ initialized = TRUE

\* an __init__ that takes every object for a fresh one
HasInitializedNever == FALSE

\* hasattr(self, 'initialized')
HasInitialized == initialized

\* AgentMonitor() is called
CallConstruct(t) ==
    /\ BeginCall(t, [NoCall EXCEPT !.op = "AgentMonitor"])
    /\ pc' = [pc EXCEPT ![t] = "new_check"]
    /\ loc' = [loc EXCEPT ![t] = NoLoc]
    /\ UNCHANGED <<events, subscribers, active_sessions, lock, now, appended,
                   clearedIds, logged, expected>>
    /\ UNCHANGED <<streamVars, graphVars, classVars>>

\* __new__: `if cls._instance is None` (then the instance is made under
\* cls._lock), `return cls._instance`
ConstructNew(t) ==
    /\ pc[t] = "new_check"
    /\ instance' = IF instance = None THEN "object" ELSE instance
    /\ initialized' = IF instance = None THEN FALSE ELSE initialized
    /\ loc' = [loc EXCEPT ![t].self = instance']
    /\ pc' = [pc EXCEPT ![t] = "init_check"]
    /\ UNCHANGED <<events, subscribers, active_sessions, lock, now, call, result,
                   appended, clearedIds, logged, expected, gh, calls>>
    /\ UNCHANGED <<streamVars, graphVars>>

\* __init__: `if not hasattr(self, 'initialized')` guards the (re)creation of
\* the log, the subscriber list, the session map and the lock
ConstructInit(t) ==
    /\ pc[t] = "init_check"
    /\ IF HasInitialized
       THEN UNCHANGED <<events, subscribers, active_sessions, lock, initialized>>
       ELSE /\ events' = <<>>
            /\ subscribers' = <<>>
            /\ active_sessions' = EmptyMap
            /\ lock' = None
            /\ initialized' = TRUE
    /\ pc' = [pc EXCEPT ![t] = "idle"]
    /\ result' = [result EXCEPT ![t] = loc[t].self]
    /\ call' = [call EXCEPT ![t] = NoCall]
    /\ loc' = [loc EXCEPT ![t] = NoLoc]
    /\ UNCHANGED <<now, appended, clearedIds, logged, expected, gh, calls, instance>>
    /\ UNCHANGED <<streamVars, graphVars>>

(***************************************************************************)
(* get_session_stats                                                       *)
(***************************************************************************)
\* get_session_stats(session_id) is entered
CallGetSessionStats(t, s) ==
    /\ BeginCall(t, [NoCall EXCEPT !.op = "get_session_stats", !.sid = s])
    /\ pc' = [pc EXCEPT ![t] = "acquire"]
    /\ loc' = [loc EXCEPT ![t] = NoLoc]
    /\ UNCHANGED <<events, subscribers, active_sessions, lock, now, appended,
                   clearedIds, logged, expected>>
    /\ UNCHANGED <<streamVars, graphVars, classVars>>

\* an agent set that takes the missing agent_type of a session event for an agent
AgentsInvolvedWithNone(se) == {e.agent_type : e \in Range(se)}

\* `if 'agent_type' in event: stats['agents_involved'].add(event['agent_type'])`;
\* session_start and session_end events have no such key
AgentsInvolved(se) == {e.agent_type : e \in Range(se)} \ {None}

\* a count that takes every event of the log, whatever its session
SessionStatsAllEvents(evs, sid, session, t) ==
    [total_events |-> Len(evs),
     events_by_type |-> [ty \in {e.type : e \in Range(evs)} |->
                            Cardinality({k \in 1..Len(evs) : evs[k].type = ty})],
     events_by_level |-> [lv \in {e.level : e \in Range(evs)} |->
                            Cardinality({k \in 1..Len(evs) : evs[k].level = lv})],
     agents_involved |-> {e.agent_type : e \in Range(evs)} \ {None},
     duration_seconds |-> IF session.ended_at # NoTime
                          THEN session.ended_at - session.started_at
                          ELSE t - session.started_at]

\* the stats dict of a registered session: counts over the events of the log
\* tagged with the session id, and the elapsed time
SessionStats(evs, sid, session, t) ==
    LET Mine(e) == e.session_id = sid
        se == SelectSeq(evs, Mine)
    IN  [total_events |-> Len(se),
         events_by_type |-> [ty \in {e.type : e \in Range(se)} |->
                                Cardinality({k \in 1..Len(se) : se[k].type = ty})],
         events_by_level |-> [lv \in {e.level : e \in Range(se)} |->
                                Cardinality({k \in 1..Len(se) : se[k].level = lv})],
         agents_involved |-> AgentsInvolved(se),
         duration_seconds |-> IF session.ended_at # NoTime
                              THEN session.ended_at - session.started_at
                              ELSE t - session.started_at]

\* get_session_stats: the whole body runs under the lock; {} for an id that
\* is not registered
StatsBody(t) ==
    /\ pc[t] = "st_body"
    /\ LET s == call[t].sid IN
        loc' = [loc EXCEPT ![t].stats =
                   IF s \in DOMAIN active_sessions
                   THEN SessionStats(events, s, active_sessions[s], now)
                   ELSE EmptyMap]
    /\ pc' = [pc EXCEPT ![t] = "release"]
    /\ UNCHANGED <<events, subscribers, active_sessions, lock, now, call, result,
                   appended, clearedIds, logged, expected, gh, calls>>
    /\ UNCHANGED <<streamVars, graphVars, classVars>>

(***************************************************************************)
(* Streaming adapter (src/app/views.py, event_stream)                      *)
(***************************************************************************)
\* get_recent_events(limit=20) of the initial replay, scaled with Capacity
ReplayLimit == 1

\* json.dumps(event) succeeds unless the event's data holds a value that is
\* not JSON serializable, and then raises TypeError
Serializable(e) == e.data # Unserializable

\* the events of a list that `for event in ...: yield json.dumps(event)`
\* yields: those before the first one json.dumps raises on
RECURSIVE Dumpable(_)
Dumpable(evs) ==
    IF evs = <<>> \/ ~Serializable(Head(evs)) THEN <<>>
    ELSE <<Head(evs)>> \o Dumpable(Tail(evs))

\* the message {'type': 'heartbeat', ...}
HeartbeatMessage == "heartbeat"

StreamInit ==
    /\ spc = "off"
    /\ last_event_count = 0
    /\ current_count = 0
    /\ emitted = <<>>
    /\ marks = [prev |-> 0, cur |-> 0, raced |-> FALSE]
    /\ yielded = <<>>

\* last_event_count = len(monitor.events): read without the lock
StreamStart ==
    /\ spc = "off"
    /\ last_event_count' = Len(events)
    /\ marks' = [prev |-> appended, cur |-> appended, raced |-> FALSE]
    /\ spc' = "initial"
    /\ UNCHANGED <<current_count, emitted, yielded>>
    /\ UNCHANGED <<monVars, graphVars, classVars>>

\* the initial replay: get_recent_events takes the lock for its snapshot
StreamInitial ==
    /\ spc = "initial"
    /\ CanAcquire("stream")
    /\ LET initial_events == GetRecent(events, ReplayLimit, None, None) IN
        /\ Dumpable(initial_events) = initial_events
        /\ emitted' = emitted \o SeqIds(initial_events)
        /\ yielded' = [k \in 1..Len(initial_events) |-> "data"]
    /\ spc' = "poll"
    /\ UNCHANGED <<last_event_count, current_count, marks>>
    /\ UNCHANGED <<monVars, graphVars, classVars>>

\* current_count = len(monitor.events) is larger than last_event_count
StreamPollNew ==
    /\ spc = "poll"
    /\ Len(events) > last_event_count
    /\ current_count' = Len(events)
    /\ marks' = [prev |-> marks.cur, cur |-> appended, raced |-> FALSE]
    /\ spc' = "delta"
    /\ yielded' = <<>>
    /\ UNCHANGED <<last_event_count, emitted>>
    /\ UNCHANGED <<monVars, graphVars, classVars>>

\* current_count = len(monitor.events) is not larger than last_event_count
StreamPollSame ==
    /\ spc = "poll"
    /\ Len(events) <= last_event_count
    /\ current_count' = Len(events)
    /\ marks' = [prev |-> marks.cur, cur |-> appended, raced |-> FALSE]
    /\ spc' = "heartbeat"
    /\ yielded' = <<>>
    /\ UNCHANGED <<last_event_count, emitted>>
    /\ UNCHANGED <<monVars, graphVars, classVars>>

\* new_events = get_recent_events(limit=current_count - last_event_count),
\* the events are yielded, last_event_count = current_count
StreamDelta ==
    /\ spc = "delta"
    /\ CanAcquire("stream")
    /\ LET new_events == GetRecent(events, current_count - last_event_count,
                                   None, None) IN
        /\ Dumpable(new_events) = new_events
        /\ emitted' = emitted \o SeqIds(new_events)
        /\ yielded' = [k \in 1..Len(new_events) |-> "data"]
    /\ last_event_count' = current_count
    /\ marks' = [marks EXCEPT !.raced = (appended # marks.cur)]
    /\ spc' = "heartbeat"
    /\ UNCHANGED current_count
    /\ UNCHANGED <<monVars, graphVars, classVars>>

\* the initial replay meets an event json.dumps raises on: the exception is
\* raised outside the `try` and leaves the generator
StreamInitialRaise ==
    /\ spc = "initial"
    /\ CanAcquire("stream")
    /\ LET initial_events == GetRecent(events, ReplayLimit, None, None) IN
        /\ Dumpable(initial_events) # initial_events
        /\ emitted' = emitted \o SeqIds(Dumpable(initial_events))
        /\ yielded' = [k \in 1..Len(Dumpable(initial_events)) |-> "data"]
    /\ spc' = "raised"
    /\ UNCHANGED <<last_event_count, current_count, marks>>
    /\ UNCHANGED <<monVars, graphVars, classVars>>

\* the delta meets an event json.dumps raises on: `except Exception` yields
\* the error message, `break` ends the generator
StreamDeltaError ==
    /\ spc = "delta"
    /\ CanAcquire("stream")
    /\ LET new_events == GetRecent(events, current_count - last_event_count,
                                   None, None) IN
        /\ Dumpable(new_events) # new_events
        /\ emitted' = emitted \o SeqIds(Dumpable(new_events))
        /\ yielded' = Append([k \in 1..Len(Dumpable(new_events)) |-> "data"], "error")
    /\ marks' = [marks EXCEPT !.raced = (appended # marks.cur)]
    /\ spc' = "closed"
    /\ UNCHANGED <<last_event_count, current_count>>
    /\ UNCHANGED <<monVars, graphVars, classVars>>

\* the heartbeat is yielded
StreamHeartbeat ==
    /\ spc = "heartbeat"
    /\ yielded' = Append(yielded, HeartbeatMessage)
    /\ spc' = "sleep"
    /\ UNCHANGED <<last_event_count, current_count, emitted, marks>>
    /\ UNCHANGED <<monVars, graphVars, classVars>>

\* time.sleep(2) is over
StreamSleep ==
    /\ spc = "sleep"
    /\ spc' = "poll"
    /\ UNCHANGED <<last_event_count, current_count, emitted, marks, yielded>>
    /\ UNCHANGED <<monVars, graphVars, classVars>>

(***************************************************************************)
(* Graph engine (src/payroll_variable_agent.py, PayrollVariableGraph)      *)
(***************************************************************************)
\* number of engine calls in one behaviour
MaxEngineCalls == 5

NodeIds == {"n1", "n2", "n3"}
VarNames == {"x"}
VarKinds == {"input", "intermediate"}
Labels == {None, "v1"}
Descriptions == {"d1", "d2"}
\* "f" is a plain function; "partial" is a callable without __name__
Functions == {"f", "partial"}

AttrKeys == {"description", "function_name", "function_signature", "function_doc",
             "output_variable", "input_variables", "legal_reference", "node_type",
             "created_at"}

\* attributes of a node that networkx created on its own for an edge endpoint
NoAttrs ==
    [keys |-> {}, description |-> None, function_name |-> None,
     output_variable |-> None, input_variables |-> <<>>]

\* self._impact_source = None
NoImpactSource == [description |-> None, convention |-> None, timestamp |-> NoTime]

NoLast ==
    [op |-> None, a |-> None, b |-> None, lbl |-> None, res |-> None, n |-> 0,
     pre |-> [nodes |-> EmptyMap, edges |-> EmptyMap],
     base |-> [nodes |-> EmptyMap, edges |-> EmptyMap],
     order |-> <<>>, entry |-> {}, exit |-> {}, levels |-> EmptyMap,
     gone |-> None, values |-> {}, args |-> {}, missing |-> <<>>, invoked |-> FALSE,
     stats |-> EmptyMap, latest |-> <<>>, added |-> None, outputs |-> {}]

GraphInit ==
    /\ nodes = EmptyMap
    /\ edges = EmptyMap
    /\ function_registry = EmptyMap
    /\ input_variables = <<>>
    /\ intermediate_variables = <<>>
    /\ impact_source = NoImpactSource
    /\ last = NoLast
    /\ gcalls = 0

\* a Python dict, in insertion order, as a sequence of [key, val]
DictKeys(d) == {d[k].key : k \in 1..Len(d)}

DictSet(d, key, val) ==
    IF key \in DictKeys(d)
    THEN [k \in 1..Len(d) |-> IF d[k].key = key THEN [key |-> key, val |-> val] ELSE d[k]]
    ELSE Append(d, [key |-> key, val |-> val])

DictDel(d, key) ==
    LET Other(item) == item.key # key IN SelectSeq(d, Other)

MapWithout(f, ks) == [k \in DOMAIN f \ ks |-> f[k]]

HasName(f) == f # "partial"

\* nx.DiGraph.add_node(n, **attrs): creates the node or updates its attributes
NxAddNode(N, n, attrs) == (n :> attrs) @@ N

\* add_edge keeping the attributes of an edge that exists already
NxAddEdgeKeepsOld(N, E, u, v, attrs) ==
    [nodes |-> [n \in DOMAIN N \cup {u, v} |-> IF n \in DOMAIN N THEN N[n] ELSE NoAttrs],
     edges |-> IF <<u, v>> \in DOMAIN E THEN E ELSE (<<u, v>> :> attrs) @@ E]

\* nx.DiGraph.add_edge(u, v, **attrs): missing endpoints are created, the
\* attributes of an existing edge are updated with the new ones
NxAddEdge(N, E, u, v, attrs) ==
    [nodes |-> [n \in DOMAIN N \cup {u, v} |-> IF n \in DOMAIN N THEN N[n] ELSE NoAttrs],
     edges |-> (<<u, v>> :> attrs) @@ E]

\* remove_node that leaves the incident edges in place
NxRemoveNodeOnly(N, E, n) ==
    [nodes |-> MapWithout(N, {n}), edges |-> E]

\* nx.DiGraph.remove_node(n): the node and every edge into or out of it
NxRemoveNode(N, E, n) ==
    [nodes |-> MapWithout(N, {n}),
     edges |-> MapWithout(E, {e \in DOMAIN E : e[1] = n \/ e[2] = n})]

\* a test that rejects only when both endpoints are missing
ConnectRejectsBoth(a, b) == a \notin DOMAIN nodes /\ b \notin DOMAIN nodes

\* `if from_node not in self.graph or to_node not in self.graph`
ConnectRejects(a, b) == a \notin DOMAIN nodes \/ b \notin DOMAIN nodes

Called(op, a, b, lbl, res) ==
    /\ gcalls < MaxEngineCalls
    /\ gcalls' = gcalls + 1
    /\ last' = [NoLast EXCEPT !.op = op, !.a = a, !.b = b, !.lbl = lbl, !.res = res]

\* add_variable(var_name, var_type, ...)
AddVariable(name, kind) ==
    /\ Called("add_variable", name, kind, None, "ok")
    /\ LET info == [name |-> name, type |-> kind] IN
        IF kind = "input"
        THEN /\ input_variables' = DictSet(input_variables, name, info)
             /\ UNCHANGED intermediate_variables
        ELSE /\ intermediate_variables' = DictSet(intermediate_variables, name, info)
             /\ UNCHANGED input_variables
    /\ UNCHANGED <<nodes, edges, function_registry, impact_source>>
    /\ UNCHANGED <<monVars, streamVars, classVars>>

\* a remove_variable that also drops the nodes producing the variable
RemoveVariableCascading(name) ==
    /\ Called("remove_variable", name, None, None,
              IF name \in DictKeys(input_variables) \cup DictKeys(intermediate_variables)
              THEN "True" ELSE "False")
    /\ input_variables' = DictDel(input_variables, name)
    /\ intermediate_variables' = DictDel(intermediate_variables, name)
    /\ LET producers == {n \in DOMAIN nodes : nodes[n].output_variable = name} IN
        /\ nodes' = MapWithout(nodes, producers)
        /\ edges' = MapWithout(edges, {e \in DOMAIN edges :
                                          e[1] \in producers \/ e[2] \in producers})
        /\ function_registry' = MapWithout(function_registry, producers)
    /\ UNCHANGED impact_source
    /\ UNCHANGED <<monVars, streamVars, classVars>>

\* remove_variable(var_name)
RemoveVariable(name) ==
    /\ Called("remove_variable", name, None, None,
              IF name \in DictKeys(input_variables) \cup DictKeys(intermediate_variables)
              THEN "True" ELSE "False")
    /\ input_variables' = DictDel(input_variables, name)
    /\ intermediate_variables' = DictDel(intermediate_variables, name)
    /\ UNCHANGED <<nodes, edges, function_registry, impact_source>>
    /\ UNCHANGED <<monVars, streamVars, classVars>>

\* an add_calculation_node that removes a node of the same id before it adds
\* the new one
AddCalculationNodeAfresh(n, f, desc, out, ins) ==
    /\ Called("add_calculation_node", n, f, desc,
              IF HasName(f) THEN "ok" ELSE "AttributeError")
    /\ function_registry' = (n :> f) @@ function_registry
    /\ IF HasName(f)
       THEN /\ nodes' = NxAddNode(nodes, n,
                           [keys |-> AttrKeys, description |-> desc, function_name |-> f,
                            output_variable |-> out, input_variables |-> ins])
            /\ edges' = NxRemoveNode(nodes, edges, n).edges
       ELSE UNCHANGED <<nodes, edges>>
    /\ UNCHANGED <<input_variables, intermediate_variables, impact_source>>
    /\ UNCHANGED <<monVars, streamVars, classVars>>

\* add_calculation_node(node_id, function, description, output_variable,
\* input_variables, ...):
\* the registry is written first; function.__name__ raises for a callable
\* that has no name, and then the node is not added; `lbl` of the record
\* keeps the description passed
AddCalculationNode(n, f, desc, out, ins) ==
    /\ Called("add_calculation_node", n, f, desc,
              IF HasName(f) THEN "ok" ELSE "AttributeError")
    /\ function_registry' = (n :> f) @@ function_registry
    /\ IF HasName(f)
       THEN nodes' = NxAddNode(nodes, n,
                        [keys |-> AttrKeys, description |-> desc, function_name |-> f,
                         output_variable |-> out, input_variables |-> ins])
       ELSE UNCHANGED nodes
    /\ UNCHANGED <<edges, input_variables, intermediate_variables, impact_source>>
    /\ UNCHANGED <<monVars, streamVars, classVars>>

\* connect_calculations(from_node, to_node, variable_passed) with an endpoint
\* that is not in the graph: ValueError
ConnectUnknown(a, b, lbl) ==
    /\ ConnectRejects(a, b)
    /\ Called("connect_calculations", a, b, lbl, "ValueError")
    /\ UNCHANGED engineVars
    /\ UNCHANGED <<monVars, streamVars, classVars>>

\* connect_calculations(from_node, to_node, variable_passed) on two nodes
Connect(a, b, lbl) ==
    /\ ~ConnectRejects(a, b)
    /\ gcalls < MaxEngineCalls
    /\ gcalls' = gcalls + 1
    /\ LET g == NxAddEdge(nodes, edges, a, b, [variable_passed |-> lbl])
           again == /\ last.op = "connect_calculations" /\ last.res = "ok"
                    /\ last.a = a /\ last.b = b
       IN  /\ nodes' = g.nodes
           /\ edges' = g.edges
           /\ last' = [op |-> "connect_calculations", a |-> a, b |-> b, lbl |-> lbl,
                       res |-> "ok", n |-> IF again THEN 2 ELSE 1,
                       pre |-> [nodes |-> nodes, edges |-> edges],
                       base |-> IF again THEN last.pre ELSE NoLast.base]
    /\ UNCHANGED <<function_registry, input_variables, intermediate_variables,
                   impact_source>>
    /\ UNCHANGED <<monVars, streamVars, classVars>>

\* remove_calculation_node(node_id)
RemoveNode(n) ==
    IF n \notin DOMAIN nodes
    THEN /\ Called("remove_calculation_node", n, None, None, "False")
         /\ UNCHANGED engineVars
         /\ UNCHANGED <<monVars, streamVars, classVars>>
    ELSE /\ gcalls < MaxEngineCalls
         /\ gcalls' = gcalls + 1
         /\ last' = [NoLast EXCEPT !.op = "remove_calculation_node", !.a = n,
                                   !.res = "True",
                                   !.pre = [nodes |-> nodes, edges |-> edges]]
         /\ LET g == NxRemoveNode(nodes, edges, n) IN
             /\ nodes' = g.nodes
             /\ edges' = g.edges
         /\ function_registry' = MapWithout(function_registry, {n})
         /\ UNCHANGED <<input_variables, intermediate_variables, impact_source>>
         /\ UNCHANGED <<monVars, streamVars, classVars>>

\* node_attrs[key] = value, for the attributes the model carries
SetAttr(attrs, key, val) ==
    CASE key = "description" -> [attrs EXCEPT !.description = val]
      [] key = "function_name" -> [attrs EXCEPT !.function_name = val]
      [] key = "output_variable" -> [attrs EXCEPT !.output_variable = val]
      [] key = "input_variables" -> [attrs EXCEPT !.input_variables = val]
      [] OTHER -> attrs

\* an update_calculation_node that takes function_name for the function itself
UpdateNodeRebinding(n, key, val) ==
    /\ Called("update_calculation_node", n, key, None,
              IF n \in DOMAIN nodes THEN "True" ELSE "False")
    /\ nodes' = IF n \in DOMAIN nodes /\ key \in nodes[n].keys
                THEN [nodes EXCEPT ![n] = SetAttr(@, key, val)] ELSE nodes
    /\ function_registry' = IF n \in DOMAIN nodes /\ key = "function_name"
                            THEN (n :> val) @@ function_registry
                            ELSE function_registry
    /\ UNCHANGED <<edges, input_variables, intermediate_variables, impact_source>>
    /\ UNCHANGED <<monVars, streamVars, classVars>>

\* update_calculation_node(node_id, **{key: val}): only keys the node's
\* attribute dict already has are written
UpdateNode(n, key, val) ==
    IF n \notin DOMAIN nodes
    THEN /\ Called("update_calculation_node", n, key, None, "False")
         /\ UNCHANGED engineVars
         /\ UNCHANGED <<monVars, streamVars, classVars>>
    ELSE /\ Called("update_calculation_node", n, key, None, "True")
         /\ nodes' = IF key \in nodes[n].keys
                     THEN [nodes EXCEPT ![n] = SetAttr(@, key, val)]
                     ELSE nodes
         /\ UNCHANGED <<edges, function_registry, input_variables,
                        intermediate_variables, impact_source>>
         /\ UNCHANGED <<monVars, streamVars, classVars>>

\* remove_connection that reports success whether or not the edge exists
RemoveEdgeAlwaysTrue(a, b) ==
    /\ Called("remove_connection", a, b, None, "True")
    /\ edges' = MapWithout(edges, {<<a, b>>})
    /\ UNCHANGED <<nodes, function_registry, input_variables,
                   intermediate_variables, impact_source>>
    /\ UNCHANGED <<monVars, streamVars, classVars>>

\* remove_connection(from_node, to_node)
RemoveEdge(a, b) ==
    IF <<a, b>> \in DOMAIN edges
    THEN /\ Called("remove_connection", a, b, None, "True")
         /\ edges' = MapWithout(edges, {<<a, b>>})
         /\ UNCHANGED <<nodes, function_registry, input_variables,
                        intermediate_variables, impact_source>>
         /\ UNCHANGED <<monVars, streamVars, classVars>>
    ELSE /\ Called("remove_connection", a, b, None, "False")
         /\ UNCHANGED engineVars
         /\ UNCHANGED <<monVars, streamVars, classVars>>

\* history: how many nodes, edges, functions, variables and impact sources
\* the engine holds
Held ==
    Cardinality(DOMAIN nodes) + Cardinality(DOMAIN edges)
        + Cardinality(DOMAIN function_registry)
        + Len(input_variables) + Len(intermediate_variables)
        + (IF impact_source = NoImpactSource THEN 0 ELSE 1)

CalledReset ==
    /\ gcalls < MaxEngineCalls
    /\ gcalls' = gcalls + 1
    /\ last' = [NoLast EXCEPT !.op = "clear_system", !.res = "ok", !.n = Held]

\* a clear_system that forgets to drop the impact source
ResetKeepsImpactSource ==
    /\ CalledReset
    /\ nodes' = EmptyMap
    /\ edges' = EmptyMap
    /\ function_registry' = EmptyMap
    /\ input_variables' = <<>>
    /\ intermediate_variables' = <<>>
    /\ UNCHANGED impact_source
    /\ UNCHANGED <<monVars, streamVars, classVars>>

\* clear_system()
Reset ==
    /\ CalledReset
    /\ nodes' = EmptyMap
    /\ edges' = EmptyMap
    /\ function_registry' = EmptyMap
    /\ input_variables' = <<>>
    /\ intermediate_variables' = <<>>
    /\ impact_source' = NoImpactSource
    /\ UNCHANGED <<monVars, streamVars, classVars>>

\* a read-only call: the engine is left alone, the call is not counted
Queried(rec) ==
    /\ last' = rec
    /\ UNCHANGED <<engineVars, gcalls>>
    /\ UNCHANGED <<monVars, streamVars, classVars>>

\* update_variable(var_name, **{key: val}): the input map is searched first;
\* only keys the record already has are written
UpdateVariable(name, key, val) ==
    /\ Called("update_variable", name, key, val,
              IF name \in DictKeys(input_variables) \cup DictKeys(intermediate_variables)
              THEN "True" ELSE "False")
    /\ LET Upd(d) ==
               [k \in 1..Len(d) |->
                   IF d[k].key = name /\ key = "type"
                   THEN [d[k] EXCEPT !.val.type = val]
                   ELSE IF d[k].key = name /\ key = "name"
                   THEN [d[k] EXCEPT !.val.name = val] ELSE d[k]]
       IN  IF name \in DictKeys(input_variables)
           THEN /\ input_variables' = Upd(input_variables)
                /\ UNCHANGED intermediate_variables
           ELSE /\ intermediate_variables' = Upd(intermediate_variables)
                /\ UNCHANGED input_variables
    /\ UNCHANGED <<nodes, edges, function_registry, impact_source>>
    /\ UNCHANGED <<monVars, streamVars, classVars>>

\* set_impact_source(impact_description, source_convention)
SetImpactSource(desc, conv) ==
    /\ Called("set_impact_source", desc, conv, None, "ok")
    /\ impact_source' = [description |-> desc, convention |-> conv, timestamp |-> now]
    /\ UNCHANGED <<nodes, edges, function_registry, input_variables,
                   intermediate_variables>>
    /\ UNCHANGED <<monVars, streamVars, classVars>>

(***************************************************************************)
(* nx.topological_sort and the degree views, as the engine uses them       *)
(***************************************************************************)
\* nodes of rem with no edge coming in from rem (a self-loop comes in)
ZeroIndegree(rem, E) ==
    {n \in rem : ~\E e \in DOMAIN E : e[2] = n /\ e[1] \in rem}

\* the generations of Kahn's algorithm; an empty generation closes the
\* sequence when nodes are left that never reach in-degree zero
RECURSIVE TopoGenerations(_, _)
TopoGenerations(rem, E) ==
    IF rem = {} THEN <<>>
    ELSE LET z == ZeroIndegree(rem, E) IN
         IF z = {} THEN <<{}>>
         ELSE <<z>> \o TopoGenerations(rem \ z, E)

\* nx.topological_sort raises NetworkXUnfeasible
Unfeasible(N, E) ==
    LET g == TopoGenerations(DOMAIN N, E) IN g # <<>> /\ g[Len(g)] = {}

Orders(S) ==
    {p \in [1..Cardinality(S) -> S] : \A i, j \in 1..Cardinality(S) : i # j => p[i] # p[j]}

\* the lists nx.topological_sort can yield: generation after generation, each
\* generation in the iteration order of the graph's dicts
TopoOrders(N, E) ==
    LET g == TopoGenerations(DOMAIN N, E)
        GenOf(n) == CHOOSE k \in 1..Len(g) : n \in g[k]
    IN  {p \in Orders(DOMAIN N) :
            \A i, j \in 1..Len(p) : i < j => GenOf(p[i]) <= GenOf(p[j])}

\* [n for n in self.graph.nodes() if self.graph.in_degree(n) == 0]
EntryPoints(N, E) == {n \in DOMAIN N : ~\E e \in DOMAIN E : e[2] = n}

\* [n for n in self.graph.nodes() if self.graph.out_degree(n) == 0]
ExitPoints(N, E) == {n \in DOMAIN N : ~\E e \in DOMAIN E : e[1] = n}

\* history: the node the call just before removed, and the graph before that
JustRemoved(rec) ==
    IF last.op = "remove_calculation_node" /\ last.res = "True"
    THEN [rec EXCEPT !.gone = last.a, !.pre = last.pre]
    ELSE rec

\* to_llm_readable_text, section 4D, on a graph that has nodes: the order,
\* the entry points and the exit points; NetworkXUnfeasible is no
\* NetworkXError, so it leaves the method
TopologicalOrder ==
    /\ nodes # EmptyMap
    /\ IF Unfeasible(nodes, edges)
       THEN Queried(JustRemoved([NoLast EXCEPT !.op = "topological_sort",
                                               !.res = "NetworkXUnfeasible"]))
       ELSE \E p \in TopoOrders(nodes, edges) :
               Queried(JustRemoved([NoLast EXCEPT !.op = "topological_sort",
                                                  !.res = "ok", !.order = p,
                                                  !.entry = EntryPoints(nodes, edges),
                                                  !.exit = ExitPoints(nodes, edges)]))

\* _generate_flowchart: levels from the topological order; on any exception
\* the bare `except:` numbers the nodes in their iteration order instead
FlowchartLevels ==
    /\ nodes # EmptyMap
    /\ \E p \in (IF Unfeasible(nodes, edges) THEN Orders(DOMAIN nodes)
                 ELSE TopoOrders(nodes, edges)) :
          Queried([NoLast EXCEPT !.op = "generate_flowchart", !.res = "ok",
                                 !.levels = [n \in DOMAIN nodes |->
                                               (CHOOSE k \in 1..Len(p) : p[k] = n) - 1]])

(***************************************************************************)
(* Read-only projections                                                   *)
(***************************************************************************)
\* the [-5:] of get_live_update_data, scaled down
LatestWindow == 2

\* list(d.keys()): the keys in insertion order
KeyList(d) == [k \in 1..Len(d) |-> d[k].key]

\* history: the intermediate variable the call just before added
JustAdded(rec) ==
    IF last.op = "add_variable" /\ last.b = "intermediate"
    THEN [rec EXCEPT !.added = last.a]
    ELSE rec

\* get_variable_summary(): the two totals and the two lists of names
Summary ==
    Queried([NoLast EXCEPT
        !.op = "get_variable_summary", !.res = "ok",
        !.stats = [total_input_variables |-> Len(input_variables),
                   total_intermediate_variables |-> Len(intermediate_variables),
                   input_variables |-> KeyList(input_variables),
                   intermediate_variables |-> KeyList(intermediate_variables)]])

\* get_live_update_data(): the four counts and the last keys of the
\* intermediate map
LiveStats ==
    Queried(JustAdded([NoLast EXCEPT
        !.op = "get_live_update_data", !.res = "ok",
        !.stats = [input_variables |-> Len(input_variables),
                   intermediate_variables |-> Len(intermediate_variables),
                   calculation_nodes |-> Cardinality(DOMAIN nodes),
                   connections |-> Cardinality(DOMAIN edges)],
        !.latest = SliceLast(KeyList(intermediate_variables), LatestWindow)]))

\* an output set that keeps the empty name
OutputVariablesWithEmpty(N) == {N[n].output_variable : n \in DOMAIN N} \ {None}

\* to_llm_readable_text, section 3: the output_variable of every node that
\* has a truthy one, collected in a set
OutputVariables(N) == {N[n].output_variable : n \in DOMAIN N} \ {None, ""}

\* to_llm_readable_text(): section 3 collects the output variables, section 4D
\* then orders a graph that has nodes, and NetworkXUnfeasible leaves the method
ReadableText ==
    Queried([NoLast EXCEPT
        !.op = "to_llm_readable_text",
        !.outputs = OutputVariables(nodes),
        !.res = IF nodes # EmptyMap /\ Unfeasible(nodes, edges)
                THEN "NetworkXUnfeasible" ELSE "ok"])

(***************************************************************************)
(* execute_calculation                                                     *)
(***************************************************************************)
ArgNames == {"x", "y", "z"}

\* inspect.signature(func).parameters of the functions of the model
Parameters(f) == {"x"}

\* {k: v for k, v in variable_values.items() if k in sig.parameters}
FilterArgs(f, values) == values \cap Parameters(f)

\* how func(**filtered_args) ends: Python raises TypeError when a parameter
\* without default gets no argument; "raiser" is a function whose body raises
Outcome(f, args) ==
    IF ~(Parameters(f) \subseteq args) THEN "TypeError"
    ELSE IF f = "raiser" THEN "ZeroDivisionError"
    ELSE "returned"

\* an execute_calculation that stores what it computed as a variable
ExecuteRecording(n, values) ==
    /\ last' = [NoLast EXCEPT !.op = "execute_calculation", !.a = n, !.values = values,
                              !.res = "returned", !.invoked = TRUE, !.n = 1]
    /\ intermediate_variables' =
          DictSet(intermediate_variables, n, [name |-> n, type |-> "intermediate"])
    /\ UNCHANGED <<nodes, edges, function_registry, input_variables, impact_source,
                   gcalls>>
    /\ UNCHANGED <<monVars, streamVars, classVars>>

\* execute_calculation(node_id, **variable_values); `n` of the record counts
\* the calls of the function
Execute(n, values) ==
    LET rec == [NoLast EXCEPT !.op = "execute_calculation", !.a = n, !.values = values]
    IN  IF n \notin DOMAIN function_registry
        THEN Queried([rec EXCEPT !.res = "ValueError: no function"])
        ELSE IF n \notin DOMAIN nodes
        THEN \* self.graph.nodes[node_id]
             Queried([rec EXCEPT !.res = "KeyError"])
        ELSE LET required == nodes[n].input_variables
                 Absent(v) == v \notin values
                 missing == SelectSeq(required, Absent)
             IN  IF missing # <<>>
                 THEN Queried([rec EXCEPT !.res = "ValueError: missing",
                                          !.missing = missing])
                 ELSE LET args == FilterArgs(function_registry[n], values) IN
                      Queried([rec EXCEPT !.invoked = TRUE, !.args = args, !.n = 1,
                                          !.b = function_registry[n],
                                          !.res = Outcome(function_registry[n], args)])

(***************************************************************************)
(* Specifications                                                          *)
(***************************************************************************)
Init == MonInit /\ StreamInit /\ GraphInit /\ ClassInit

\* the Monitor under two threads that start, end, log and clear, nobody subscribed
Next ==
    \/ \E t \in Threads, s \in SessionIds : CallStartSession(t, s)
    \/ \E t \in Threads, s \in SessionIds, st \in EndStatuses : CallEndSession(t, s, st)
    \/ \E t \in Threads, s \in SessionIds, a \in AgentTypes, l \in Levels :
          CallLogAction(t, s, a, l)
    \/ \E t \in Threads, s \in SessionIds, a \in AgentTypes : CallLogError(t, s, a)
    \/ \E t \in Threads, age \in ClearAges : CallClearOldEvents(t, age)
    \/ \E t \in Threads : Acquire(t)
    \/ \E t \in Threads : StartSessionSet(t)
    \/ \E t \in Threads : EndSessionKnown(t)
    \/ \E t \in Threads : EndSessionUnknown(t)
    \/ \E t \in Threads : LogActionKnown(t)
    \/ \E t \in Threads : LogActionUnknown(t)
    \/ \E t \in Threads : LogActionIncr(t)
    \/ \E t \in Threads : AddEvent(t)
    \/ \E t \in Threads : NotifyDone(t)
    \/ \E t \in Threads : Release(t)
    \/ \E t \in Threads : ClearFilter(t)
    \/ \E t \in Threads : ClearExtend(t)
    \/ Tick

Spec == Init /\ [][Next]_vars

\* the Monitor with subscribers: threads subscribe, unsubscribe, start, end and log
NextSubs ==
    \/ \E t \in Threads, cb \in Callbacks : Subscribe(t, cb)
    \/ \E t \in Threads, cb \in Callbacks : UnsubscribeAbsent(t, cb)
    \/ \E t \in Threads, cb \in Callbacks : UnsubscribeCheck(t, cb)
    \/ \E t \in Threads : UnsubscribeRemove(t)
    \/ \E t \in Threads : UnsubscribeRace(t)
    \/ \E t \in Threads : CallStartSession(t, "s1")
    \/ \E t \in Threads, s \in SessionIds, st \in EndStatuses : CallEndSession(t, s, st)
    \/ \E t \in Threads, a \in AgentTypes : CallLogAction(t, "s1", a, "info")
    \/ \E t \in Threads : Acquire(t)
    \/ \E t \in Threads : StartSessionSet(t)
    \/ \E t \in Threads : EndSessionKnown(t)
    \/ \E t \in Threads : EndSessionUnknown(t)
    \/ \E t \in Threads : LogActionKnown(t)
    \/ \E t \in Threads : LogActionUnknown(t)
    \/ \E t \in Threads : LogActionIncr(t)
    \/ \E t \in Threads : AddEvent(t)
    \/ \E t \in Threads : NotifyReturn(t)
    \/ \E t \in Threads : NotifyRaise(t)
    \/ \E t \in Threads : NotifyDone(t)
    \/ \E t \in Threads : Release(t)

SpecSubs == Init /\ [][NextSubs]_vars

\* the Monitor read by get_recent_events while threads log
NextRead ==
    \/ \E t \in Threads, l \in Limits, s \in SessionFilters, lv \in LevelFilters :
          CallGetRecentEvents(t, l, s, lv)
    \/ \E t \in Threads : GetRecentCopy(t)
    \/ \E t \in Threads : GetRecentFilter(t)
    \/ \E t \in Threads : GetRecentReturn(t)
    \/ \E t \in Threads, s \in SessionIds, a \in AgentTypes, l \in Levels :
          CallLogAction(t, s, a, l)
    \/ \E t \in Threads, s \in SessionIds, a \in AgentTypes : CallLogError(t, s, a)
    \/ \E t \in Threads : Acquire(t)
    \/ \E t \in Threads : LogActionUnknown(t)
    \/ \E t \in Threads : AddEvent(t)
    \/ \E t \in Threads : NotifyDone(t)
    \/ \E t \in Threads : Release(t)

SpecRead == Init /\ [][NextRead]_vars

\* the streaming adapter next to threads that log
NextStream ==
    \/ \E t \in Threads, a \in AgentTypes : CallLogAction(t, "s1", a, "info")
    \/ \E t \in Threads : Acquire(t)
    \/ \E t \in Threads : LogActionUnknown(t)
    \/ \E t \in Threads : AddEvent(t)
    \/ \E t \in Threads : NotifyDone(t)
    \/ \E t \in Threads : Release(t)
    \/ StreamStart
    \/ StreamInitial
    \/ StreamPollNew
    \/ StreamPollSame
    \/ StreamDelta
    \/ StreamHeartbeat
    \/ StreamSleep

SpecStream == Init /\ [][NextStream]_vars

\* the Monitor cleared of old events while threads log and callbacks are subscribed
NextClear ==
    \/ \E cb \in Callbacks : Subscribe("t1", cb)
    \/ \E t \in Threads : CallStartSession(t, "s1")
    \/ \E t \in Threads, a \in AgentTypes : CallLogAction(t, "s1", a, "info")
    \/ \E t \in Threads, age \in ClearAges : CallClearOldEvents(t, age)
    \/ \E t \in Threads : Acquire(t)
    \/ \E t \in Threads : StartSessionSet(t)
    \/ \E t \in Threads : LogActionKnown(t)
    \/ \E t \in Threads : LogActionUnknown(t)
    \/ \E t \in Threads : LogActionIncr(t)
    \/ \E t \in Threads : AddEvent(t)
    \/ \E t \in Threads : NotifyReturn(t)
    \/ \E t \in Threads : NotifyDone(t)
    \/ \E t \in Threads : Release(t)
    \/ \E t \in Threads : ClearFilter(t)
    \/ \E t \in Threads : ClearExtend(t)
    \/ Tick

SpecClear == Init /\ [][NextClear]_vars

\* the Monitor asked for session statistics while threads start sessions and log
NextStats ==
    \/ \E t \in Threads : CallStartSession(t, "s1")
    \/ \E t \in Threads, s \in SessionIds, a \in {"agentA", "agentB"} :
          CallLogAction(t, s, a, "info")
    \/ \E t \in Threads : CallLogError(t, "s1", "agentA")
    \/ \E t \in Threads, s \in SessionIds : CallGetSessionStats(t, s)
    \/ \E t \in Threads : Acquire(t)
    \/ \E t \in Threads : StartSessionSet(t)
    \/ \E t \in Threads : LogActionKnown(t)
    \/ \E t \in Threads : LogActionUnknown(t)
    \/ \E t \in Threads : LogActionIncr(t)
    \/ \E t \in Threads : AddEvent(t)
    \/ \E t \in Threads : NotifyDone(t)
    \/ \E t \in Threads : StatsBody(t)
    \/ \E t \in Threads : Release(t)

SpecStats == Init /\ [][NextStats]_vars

\* the streaming adapter next to threads that log payloads, some of which
\* json.dumps cannot encode
NextStreamData ==
    \/ \E t \in Threads, d \in {None, Unserializable} :
          CallLogActionData(t, "s1", "agentA", "info", d)
    \/ \E t \in Threads : Acquire(t)
    \/ \E t \in Threads : LogActionUnknown(t)
    \/ \E t \in Threads : AddEvent(t)
    \/ \E t \in Threads : NotifyDone(t)
    \/ \E t \in Threads : Release(t)
    \/ StreamStart
    \/ StreamInitial
    \/ StreamInitialRaise
    \/ StreamPollNew
    \/ StreamPollSame
    \/ StreamDelta
    \/ StreamDeltaError
    \/ StreamHeartbeat
    \/ StreamSleep

SpecStreamData == Init /\ [][NextStreamData]_vars

\* clear_old_events(0) called by a periodic job once the adapter has started
CallClearWhileStreaming(t) ==
    /\ spc # "off"
    /\ CallClearOldEvents(t, 0)

\* the streaming adapter next to threads that log and a job that clears the log
NextShrink ==
    \/ \E t \in Threads, a \in AgentTypes : CallLogAction(t, "s1", a, "info")
    \/ \E t \in Threads : CallClearWhileStreaming(t)
    \/ \E t \in Threads : Acquire(t)
    \/ \E t \in Threads : LogActionUnknown(t)
    \/ \E t \in Threads : AddEvent(t)
    \/ \E t \in Threads : NotifyDone(t)
    \/ \E t \in Threads : Release(t)
    \/ \E t \in Threads : ClearFilter(t)
    \/ \E t \in Threads : ClearExtend(t)
    \/ StreamStart
    \/ StreamInitial
    \/ StreamPollNew
    \/ StreamPollSame
    \/ StreamDelta
    \/ StreamHeartbeat
    \/ StreamSleep

SpecShrink == Init /\ [][NextShrink]_vars

\* a subscriber whose body calls monitor.log_agent_action on the event's session
RelogCallback == "relog"

\* _add_event: the next callback of the list is one that calls no Monitor
\* operation; it is invoked and returns
NotifyPlain(t) ==
    /\ pc[t] = "notify"
    /\ loc[t].i <= Len(subscribers)
    /\ subscribers[loc[t].i] # RelogCallback
    /\ NotifyReturn(t)

\* _add_event: the next callback of the list is invoked and calls
\* log_agent_action, which builds its event and reaches `with self.lock:` on
\* the thread that is inside the caller's `with self.lock:` block
NotifyReenter(t) ==
    /\ pc[t] = "notify"
    /\ loc[t].i <= Len(subscribers)
    /\ subscribers[loc[t].i] = RelogCallback
    /\ gh' = [gh EXCEPT ![t].notified = Append(@, subscribers[loc[t].i])]
    /\ call' = [call EXCEPT ![t] =
                  [NoCall EXCEPT !.op = "log_agent_action",
                                 !.sid = loc[t].ev.session_id,
                                 !.agent = loc[t].ev.agent_type,
                                 !.action = "act", !.level = "info"]]
    /\ loc' = [loc EXCEPT ![t] =
                 [NoLoc EXCEPT !.ev = AgentActionEvent(loc[t].ev.session_id,
                                                       loc[t].ev.agent_type,
                                                       "act", "info", now)]]
    /\ pc' = [pc EXCEPT ![t] = "acquire"]
    /\ UNCHANGED <<events, subscribers, active_sessions, lock, now, result,
                   appended, clearedIds, logged, expected, calls>>
    /\ UNCHANGED <<streamVars, graphVars, classVars>>

\* the steps a thread takes on its own once it is inside a Monitor call
ThreadStep(t) ==
    \/ Acquire(t)
    \/ LogActionUnknown(t)
    \/ AddEvent(t)
    \/ NotifyPlain(t)
    \/ NotifyReenter(t)
    \/ NotifyDone(t)
    \/ Release(t)

\* threads that log while plain callbacks and a callback that logs are subscribed
NextReenter ==
    \/ \E t \in Threads, a \in AgentTypes : CallLogAction(t, "s1", a, "info")
    \/ \E t \in Threads, cb \in {"c1", RelogCallback} : Subscribe(t, cb)
    \/ \E t \in Threads : Acquire(t)
    \/ \E t \in Threads : LogActionUnknown(t)
    \/ \E t \in Threads : AddEvent(t)
    \/ \E t \in Threads : NotifyPlain(t)
    \/ \E t \in Threads : NotifyReenter(t)
    \/ \E t \in Threads : NotifyDone(t)
    \/ \E t \in Threads : Release(t)

\* a thread that can take a step of its call is scheduled again: no callback
\* blocks, no thread is stopped for ever
SpecReenter ==
    Init /\ [][NextReenter]_vars /\ \A t \in Threads : WF_vars(ThreadStep(t))

\* one session started, logged on, ended, read and cleared by two threads
NextCount ==
    \/ \E t \in Threads : CallStartSession(t, "s1")
    \/ \E t \in Threads : CallEndSession(t, "s1", "completed")
    \/ \E t \in Threads, a \in AgentTypes : CallLogAction(t, "s1", a, "info")
    \/ \E t \in Threads, a \in AgentTypes : CallLogError(t, "s1", a)
    \/ \E t \in Threads : CallClearOldEvents(t, 0)
    \/ \E t \in Threads : CallGetRecentEvents(t, 1, "s1", None)
    \/ \E t \in Threads : CallGetSessionStats(t, "s1")
    \/ \E t \in Threads : Acquire(t)
    \/ \E t \in Threads : StartSessionSet(t)
    \/ \E t \in Threads : EndSessionKnown(t)
    \/ \E t \in Threads : EndSessionUnknown(t)
    \/ \E t \in Threads : LogActionKnown(t)
    \/ \E t \in Threads : LogActionUnknown(t)
    \/ \E t \in Threads : LogActionIncr(t)
    \/ \E t \in Threads : AddEvent(t)
    \/ \E t \in Threads : NotifyDone(t)
    \/ \E t \in Threads : Release(t)
    \/ \E t \in Threads : ClearFilter(t)
    \/ \E t \in Threads : ClearExtend(t)
    \/ \E t \in Threads : GetRecentCopy(t)
    \/ \E t \in Threads : GetRecentFilter(t)
    \/ \E t \in Threads : GetRecentReturn(t)
    \/ \E t \in Threads : StatsBody(t)

SpecCount == Init /\ [][NextCount]_vars

\* the graph engine under one caller
NextGraph ==
    \/ \E name \in VarNames, kind \in VarKinds : AddVariable(name, kind)
    \/ \E name \in VarNames : RemoveVariable(name)
    \/ \E n \in NodeIds, f \in Functions : AddCalculationNode(n, f, "d1", None, <<>>)
    \/ \E a, b \in NodeIds, lbl \in Labels : ConnectUnknown(a, b, lbl)
    \/ \E a, b \in NodeIds, lbl \in Labels : Connect(a, b, lbl)
    \/ \E n \in NodeIds : RemoveNode(n)
    \/ \E n \in NodeIds, key \in {"description", "colour"} : UpdateNode(n, key, "d2")
    \/ \E a, b \in NodeIds : RemoveEdge(a, b)
    \/ Reset

SpecGraph == Init /\ [][NextGraph]_vars

\* the graph of calculation nodes, edited and then ordered
NextOrder ==
    \/ \E n \in NodeIds : AddCalculationNode(n, "f", "d1", None, <<>>)
    \/ \E a, b \in NodeIds : Connect(a, b, None)
    \/ \E n \in NodeIds : RemoveNode(n)
    \/ \E a, b \in NodeIds : RemoveEdge(a, b)
    \/ TopologicalOrder
    \/ FlowchartLevels

SpecOrder == Init /\ [][NextOrder]_vars

\* calculation nodes added, removed and executed
NextExec ==
    \/ \E f \in Functions, ins \in {<<>>, <<"x", "z">>, <<"z", "y">>} :
          AddCalculationNode("n1", f, "d1", None, ins)
    \/ \E n \in {"n1", "n2"} : RemoveNode(n)
    \/ \E n \in {"n1", "n2"}, values \in SUBSET ArgNames : Execute(n, values)

SpecExec == Init /\ [][NextExec]_vars

\* the whole engine under one caller: variables, nodes, edges, impact source
NextEngine ==
    \/ \E name \in {"x", "y"}, kind \in VarKinds : AddVariable(name, kind)
    \/ \E name \in {"x", "y"}, key \in {"type", "colour"} :
          UpdateVariable(name, key, "input")
    \/ \E name \in {"x", "y"} : RemoveVariable(name)
    \/ \E n \in {"n1", "n2"} : AddCalculationNode(n, "f", "d1", None, <<>>)
    \/ \E a, b \in {"n1", "n2"} : Connect(a, b, None)
    \/ \E n \in {"n1", "n2"} : RemoveNode(n)
    \/ \E n \in {"n1", "n2"}, key \in {"description", "colour"} : UpdateNode(n, key, "d2")
    \/ \E a, b \in {"n1", "n2"} : RemoveEdge(a, b)
    \/ \E desc \in {"i1", "i2"} : SetImpactSource(desc, None)
    \/ Reset

SpecEngine == Init /\ [][NextEngine]_vars

\* variables edited while nodes and edges name them
NextNamed ==
    \/ \E kind \in VarKinds : AddVariable("x", kind)
    \/ \E key \in {"type", "colour"} : UpdateVariable("x", key, "input")
    \/ RemoveVariable("x")
    \/ \E n \in {"n1", "n2"}, out \in {None, "x"}, ins \in {<<>>, <<"x">>} :
          AddCalculationNode(n, "f", "d1", out, ins)
    \/ \E a, b \in {"n1", "n2"}, lbl \in {None, "x"} : Connect(a, b, lbl)
    \/ \E n \in {"n1", "n2"} : RemoveNode(n)
    \/ \E n \in {"n1", "n2"} : UpdateNode(n, "description", "d2")
    \/ \E a, b \in {"n1", "n2"} : RemoveEdge(a, b)

SpecNamed == Init /\ [][NextNamed]_vars

\* nodes bound to the function f, their attributes rewritten, then executed
NextUpdate ==
    \/ \E n \in {"n1", "n2"} : AddCalculationNode(n, "f", "d1", "x", <<"x">>)
    \/ \E a, b \in {"n1", "n2"} : Connect(a, b, None)
    \/ \E n \in {"n1", "n2"},
          key \in {"description", "function_name", "output_variable", "colour"} :
          UpdateNode(n, key, "g")
    \/ \E n \in {"n1", "n2"} : UpdateNode(n, "input_variables", <<"y">>)
    \/ \E n \in {"n1", "n2"}, values \in SUBSET {"x", "y"} : Execute(n, values)

SpecUpdate == Init /\ [][NextUpdate]_vars

\* an engine holding variables, a node, an edge and an impact source, executed
NextPure ==
    \/ \E name \in {"x", "z"} : AddVariable(name, "intermediate")
    \/ \E f \in {"f", "raiser", "partial"}, ins \in {<<>>, <<"z">>} :
          AddCalculationNode("n1", f, "d1", "x", ins)
    \/ Connect("n1", "n1", "x")
    \/ SetImpactSource("i1", None)
    \/ \E n \in {"n1", "n2"}, values \in SUBSET {"x", "z"} : Execute(n, values)

SpecPure == Init /\ [][NextPure]_vars

\* the engine edited and polled for its summary and its live statistics
NextLive ==
    \/ \E name \in {"x", "y", "z"}, kind \in VarKinds : AddVariable(name, kind)
    \/ \E name \in {"x", "y", "z"} : RemoveVariable(name)
    \/ AddCalculationNode("n1", "f", "d1", None, <<>>)
    \/ Connect("n1", "n1", None)
    \/ Summary
    \/ LiveStats

SpecLive == Init /\ [][NextLive]_vars

\* nodes that declare output variables, added, rewritten, removed and listed
NextOutputs ==
    \/ \E n \in {"n1", "n2"}, out \in {None, "", "x", "y"} :
          AddCalculationNode(n, "f", "d1", out, <<>>)
    \/ \E n \in {"n1", "n2"}, out \in {None, "y"} : UpdateNode(n, "output_variable", out)
    \/ \E n \in {"n1", "n2"} : RemoveNode(n)
    \/ Connect("n1", "n1", None)
    \/ ReadableText

SpecOutputs == Init /\ [][NextOutputs]_vars

\* nodes added under ids that exist already, connected and executed
NextReadd ==
    \/ \E n \in {"n1", "n2"}, f \in {"f", "raiser"}, desc \in Descriptions :
          AddCalculationNode(n, f, desc, None, <<>>)
    \/ \E a, b \in {"n1", "n2"} : Connect(a, b, None)
    \/ \E n \in {"n1", "n2"}, values \in SUBSET {"x"} : Execute(n, values)

SpecReadd == Init /\ [][NextReadd]_vars

\* threads that construct AgentMonitor() while they and others start sessions and log
NextConstruct ==
    \/ \E t \in Threads : CallConstruct(t)
    \/ \E t \in Threads : ConstructNew(t)
    \/ \E t \in Threads : ConstructInit(t)
    \/ \E t \in Threads : CallStartSession(t, "s1")
    \/ \E t \in Threads, a \in AgentTypes : CallLogAction(t, "s1", a, "info")
    \/ \E t \in Threads : Acquire(t)
    \/ \E t \in Threads : StartSessionSet(t)
    \/ \E t \in Threads : LogActionKnown(t)
    \/ \E t \in Threads : LogActionUnknown(t)
    \/ \E t \in Threads : LogActionIncr(t)
    \/ \E t \in Threads : AddEvent(t)
    \/ \E t \in Threads : NotifyDone(t)
    \/ \E t \in Threads : Release(t)

SpecConstruct == Init /\ [][NextConstruct]_vars

(***************************************************************************)
(* An analysis run: one thread drives the engine and logs each mutation on *)
(* its session, while another analysis logs on its own session             *)
(***************************************************************************)
Runner == "t1"
RunSession == "s1"

\* a call of the run is entered; the run's calls are not counted in `calls`
RunCall(c) ==
    /\ pc[Runner] = "idle"
    /\ call' = [call EXCEPT ![Runner] = c]
    /\ result' = [result EXCEPT ![Runner] = "none"]
    /\ gh' = [gh EXCEPT ![Runner] = NoGh]
    /\ pc' = [pc EXCEPT ![Runner] = "acquire"]
    /\ UNCHANGED <<events, subscribers, active_sessions, lock, now, appended,
                   clearedIds, logged, calls>>
    /\ UNCHANGED <<streamVars, graphVars, classVars>>

\* the run is between two calls, its session is active, and it has made
\* g engine calls and c log calls
RunAt(g, c) ==
    /\ pc[Runner] = "idle"
    /\ RunSession \in DOMAIN active_sessions
    /\ active_sessions[RunSession].status = "active"
    /\ gcalls = g
    /\ active_sessions[RunSession].events_count = c

RunStartSession ==
    /\ RunSession \notin DOMAIN active_sessions
    /\ gcalls = 0
    /\ RunCall([NoCall EXCEPT !.op = "start_session", !.sid = RunSession])
    /\ loc' = [loc EXCEPT ![Runner] = NoLoc]
    /\ expected' = expected + 1

RunAddVariable ==
    /\ RunAt(0, 0)
    /\ AddVariable("x", "input")

RunAddCalculationNode ==
    /\ RunAt(1, 1)
    /\ \E f \in Functions : AddCalculationNode("n1", f, "d1", "x", <<>>)

RunConnect ==
    /\ RunAt(2, 2)
    /\ Connect("n1", "n1", None)

RunConnectUnknown ==
    /\ RunAt(2, 2)
    /\ ConnectUnknown("n1", "n1", None)

\* the log call that follows each engine call
RunLogAction ==
    /\ \E g \in 1..3 : RunAt(g, g - 1)
    /\ RunCall([NoCall EXCEPT !.op = "log_agent_action", !.sid = RunSession,
                              !.agent = "agentA", !.action = "act", !.level = "info"])
    /\ loc' = [loc EXCEPT ![Runner] =
                 [NoLoc EXCEPT !.ev = AgentActionEvent(RunSession, "agentA", "act",
                                                       "info", now)]]
    /\ expected' = expected + 1

RunTopologicalOrder ==
    /\ RunAt(3, 3)
    /\ last.op = "connect_calculations"
    /\ TopologicalOrder

RunEndSession ==
    /\ RunAt(3, 3)
    /\ last.op = "topological_sort" \/ nodes = EmptyMap
    /\ RunCall([NoCall EXCEPT !.op = "end_session", !.sid = RunSession,
                              !.status = "completed"])
    /\ loc' = [loc EXCEPT ![Runner] = NoLoc]
    /\ UNCHANGED expected

RunGetSessionStats ==
    /\ RunSession \in DOMAIN active_sessions
    /\ active_sessions[RunSession].status = "completed"
    /\ RunCall([NoCall EXCEPT !.op = "get_session_stats", !.sid = RunSession])
    /\ loc' = [loc EXCEPT ![Runner] = NoLoc]
    /\ UNCHANGED expected

NextRun ==
    \/ RunStartSession
    \/ RunAddVariable
    \/ RunAddCalculationNode
    \/ RunConnect
    \/ RunConnectUnknown
    \/ RunLogAction
    \/ RunTopologicalOrder
    \/ RunEndSession
    \/ RunGetSessionStats
    \/ \E a \in AgentTypes : CallLogAction("t2", "s2", a, "info")
    \/ \E t \in Threads : Acquire(t)
    \/ \E t \in Threads : StartSessionSet(t)
    \/ \E t \in Threads : EndSessionKnown(t)
    \/ \E t \in Threads : LogActionKnown(t)
    \/ \E t \in Threads : LogActionUnknown(t)
    \/ \E t \in Threads : LogActionIncr(t)
    \/ \E t \in Threads : AddEvent(t)
    \/ \E t \in Threads : NotifyDone(t)
    \/ \E t \in Threads : StatsBody(t)
    \/ \E t \in Threads : Release(t)
    \/ Tick

SpecRun == Init /\ [][NextRun]_vars

(***************************************************************************)
(* Properties of the Monitor                                               *)
(***************************************************************************)
IsIncreasing(ids) == \A j, k \in 1..Len(ids) : j < k => ids[j] < ids[k]

Min(a, b) == IF a < b THEN a ELSE b

Idle == \A t \in Threads : pc[t] = "idle"

C1_State ==
    /\ Len(events) <= Capacity
    /\ IsIncreasing(SeqIds(events))
    /\ (clearedIds = {} /\ \A t \in Threads : pc[t] # "co_extend") =>
          LET n == Min(appended, Capacity) IN
              SeqIds(events) = [k \in 1..n |-> appended - n + k]

C1_AppendStep ==
    appended' = appended + 1 =>
        /\ events' # <<>>
        /\ events'[Len(events')].seq = appended'
        /\ IF Len(events) = Capacity
           THEN SubSeq(events', 1, Len(events') - 1) = Tail(events)
           ELSE SubSeq(events', 1, Len(events') - 1) = events

\* C1: the log never holds more than Capacity events; an append on a full log
\* evicts exactly the oldest event and otherwise nothing; so, as long as
\* clear_old_events has dropped nothing, the log is exactly the last
\* min(appended, Capacity) appended events in append order.
C1_LogBounded == [](C1_State) /\ [][C1_AppendStep]_vars

C1_Witness ==
    /\ Idle
    /\ appended > Capacity
    /\ clearedIds = {}
    /\ Len(events) = Capacity

\* C2: under any interleaving of log_agent_action calls, every call appends
\* one event that carries the values passed to that call, and a registered
\* session's events_count equals the number of log_agent_action calls made
\* with its id since it was registered.
C2_NoLostUpdate ==
    /\ \A s \in DOMAIN active_sessions :
          (\A t \in Threads : ~(pc[t] = "la_incr" /\ call[t].sid = s)) =>
              active_sessions[s].events_count = logged[s]
    /\ Idle => appended = expected
    /\ \A t \in Threads :
          (call[t].op = "log_agent_action" /\ pc[t] \in {"notify", "release"}) =>
              /\ events # <<>>
              /\ LET e == events[Len(events)] IN
                  /\ e.seq = appended
                  /\ e.type = "agent_action"
                  /\ e.session_id = call[t].sid
                  /\ e.agent_type = call[t].agent
                  /\ e.action = call[t].action
                  /\ e.level = call[t].level

C2_Witness ==
    \E t, u \in Threads :
        /\ t # u
        /\ call[t].op = "log_agent_action" /\ pc[t] = "release"
        /\ call[u].op = "log_agent_action" /\ pc[u] = "acquire"
        /\ call[t].sid = call[u].sid
        /\ call[t].sid \in DOMAIN active_sessions
        /\ active_sessions[call[t].sid].events_count = 1

\* C4: log_agent_action appends one event, creates no session, and increments
\* events_count and refreshes last_activity of its session exactly when that
\* session is registered with status active; no other session changes.
C4_LogActionOnlyActive ==
    \A t \in Threads :
        (call[t].op = "log_agent_action" /\ pc[t] = "release") =>
            LET s == call[t].sid
                before == gh[t].pre
            IN  /\ appended = before.appended + 1
                /\ DOMAIN active_sessions = DOMAIN before.sessions
                /\ \A r \in DOMAIN active_sessions \ {s} :
                      active_sessions[r] = before.sessions[r]
                /\ s \in DOMAIN before.sessions =>
                      IF before.sessions[s].status = "active"
                      THEN /\ active_sessions[s].events_count =
                                  before.sessions[s].events_count + 1
                           /\ active_sessions[s].last_activity >=
                                  before.sessions[s].last_activity
                           /\ active_sessions[s] =
                                  [before.sessions[s] EXCEPT
                                      !.events_count = active_sessions[s].events_count,
                                      !.last_activity = active_sessions[s].last_activity]
                      ELSE active_sessions[s] = before.sessions[s]

\* C5: a session is created active, its status changes only in end_session,
\* and a session that has left the status active keeps its status for ever.
C5_TerminalIsFinal ==
    [][ /\ \A s \in DOMAIN active_sessions :
              /\ s \in DOMAIN active_sessions'
              /\ active_sessions[s].status # "active" =>
                    active_sessions'[s].status = active_sessions[s].status
              /\ active_sessions'[s].status # active_sessions[s].status =>
                    \E t \in Threads : call[t].op = "end_session" /\ pc[t] = "es_check"
        /\ \A s \in DOMAIN active_sessions' \ DOMAIN active_sessions :
              active_sessions'[s].status = "active"
      ]_vars

LoggingOps == {"start_session", "end_session", "log_agent_action"}

C6_EndSessionState ==
    \A t \in Threads :
        (call[t].op = "end_session" /\ pc[t] = "release") =>
            LET s == call[t].sid
                before == gh[t].pre
            IN  IF s \in DOMAIN before.sessions
                THEN /\ active_sessions =
                            [before.sessions EXCEPT
                                ![s].status = call[t].status,
                                ![s].ended_at = active_sessions[s].ended_at]
                     /\ active_sessions[s].ended_at # NoTime
                     /\ appended = before.appended + 1
                     /\ events = DequeAppend(before.events, loc[t].ev)
                     /\ loc[t].ev.type = "session_end"
                     /\ loc[t].ev.session_id = s
                     /\ loc[t].ev.data = call[t].status
                     /\ loc[t].ev.seq = appended
                ELSE /\ active_sessions = before.sessions
                     /\ events = before.events
                     /\ appended = before.appended
                     /\ gh[t].notified = <<>>

C6_EndSessionStep ==
    \A t \in Threads :
        (call[t].op = "end_session" /\ pc'[t] # pc[t]) =>
            /\ subscribers' = subscribers
            /\ pc'[t] = "idle" => result'[t] = "ok"

\* C6: end_session on a registered id sets the status to the given label, sets
\* ended_at and appends exactly one session_end event; on an id that is not
\* registered it changes neither the log nor the session map, invokes no
\* subscriber and returns without an error; it never touches the subscriber list.
C6_EndSession == [](C6_EndSessionState) /\ [][C6_EndSessionStep]_vars

C6_Witness ==
    \E t \in Threads :
        /\ call[t].op = "end_session" /\ pc[t] = "release"
        /\ call[t].sid \notin DOMAIN active_sessions
        /\ subscribers # <<>>
        /\ events # <<>>
        /\ \E r \in DOMAIN active_sessions :
              /\ active_sessions[r].status \in EndStatuses
              /\ active_sessions[r].ended_at # NoTime

Matching(evs, sid, lvl) ==
    LET Match(e) == /\ sid # None => e.session_id = sid
                    /\ lvl # None => e.level = lvl
    IN  SelectSeq(evs, Match)

\* C7: for every limit >= 0 and every session and level filter,
\* get_recent_events returns at most limit events, all matching the filters:
\* the last min(limit, number of matches) matching events of the log, in log order.
C7_RecentEventsWithinLimit ==
    \A t \in Threads :
        (pc[t] = "gr_return" /\ call[t].limit >= 0) =>
            LET m == Matching(loc[t].snap, call[t].sid, call[t].level)
                k == Min(call[t].limit, Len(m))
            IN  /\ Len(loc[t].ret) <= call[t].limit
                /\ \A e \in Range(loc[t].ret) : e \in Range(m)
                /\ loc[t].ret = SubSeq(m, Len(m) - k + 1, Len(m))

\* C8: whenever a polling iteration of the adapter ends, every event appended
\* between the previous read of the log length and this iteration's read has
\* been emitted, provided these are at most Capacity events (and no append
\* fell between this iteration's read of the length and its delta query).
C8_NoMissedEvents ==
    (spc = "sleep" /\ ~marks.raced /\ marks.cur - marks.prev <= Capacity) =>
        \A k \in (marks.prev + 1)..marks.cur : k \in Range(emitted)

(***************************************************************************)
(* Properties of the graph engine                                          *)
(***************************************************************************)
TwiceConnected ==
    /\ last.op = "connect_calculations"
    /\ last.res = "ok"
    /\ last.n = 2
    /\ last.a # last.b

OthersAsBefore(base) ==
    /\ nodes = base.nodes
    /\ DOMAIN edges \ {<<last.a, last.b>>} = DOMAIN base.edges \ {<<last.a, last.b>>}
    /\ \A e \in DOMAIN edges \ {<<last.a, last.b>>} : edges[e] = base.edges[e]

\* C9: after connect(n1, n2) twice in a row on nodes n1 # n2 there is
\* one edge n1 -> n2 with the label of the last call, the store has one edge
\* more than before the two calls, and nothing else changed.
C9_ConnectTwiceGrowsByOne ==
    TwiceConnected =>
        /\ <<last.a, last.b>> \in DOMAIN edges
        /\ edges[<<last.a, last.b>>].variable_passed = last.lbl
        /\ Cardinality(DOMAIN edges) = Cardinality(DOMAIN last.base.edges) + 1
        /\ OthersAsBefore(last.base)

\* C9, with the edge count made exact: after connect(n1, n2) twice in a row on
\* nodes n1 # n2 there is one edge n1 -> n2 with the label of the last call, the
\* store has one edge more than before the two calls when there was no edge
\* n1 -> n2 before them and as many edges as before otherwise, and nothing else
\* changed.
C9_ConnectTwiceOneEdge ==
    TwiceConnected =>
        /\ <<last.a, last.b>> \in DOMAIN edges
        /\ edges[<<last.a, last.b>>].variable_passed = last.lbl
        /\ Cardinality(DOMAIN edges) =
              Cardinality(DOMAIN last.base.edges) +
                  (IF <<last.a, last.b>> \in DOMAIN last.base.edges THEN 0 ELSE 1)
        /\ OthersAsBefore(last.base)

C9_Witness ==
    /\ TwiceConnected
    /\ <<last.a, last.b>> \notin DOMAIN last.base.edges
    /\ last.pre.edges[<<last.a, last.b>>].variable_passed # last.lbl
    /\ Cardinality(DOMAIN edges) = 2

EndpointsExist ==
    \A e \in DOMAIN edges : e[1] \in DOMAIN nodes /\ e[2] \in DOMAIN nodes

C10_ConnectStep ==
    (/\ last'.op = "connect_calculations"
     /\ gcalls' = gcalls + 1
     /\ (last'.a \notin DOMAIN nodes \/ last'.b \notin DOMAIN nodes)) =>
        /\ last'.res = "ValueError"
        /\ UNCHANGED engineVars

\* C10: connect fails (ValueError, the engine's UnknownNode) whenever an
\* endpoint is not a node, and then leaves nodes, edges, function registry and
\* variable registry unchanged; in every reachable state both endpoints of
\* every edge are nodes.
C10_EdgesJoinNodes == [](EndpointsExist) /\ [][C10_ConnectStep]_vars

C10_Witness ==
    /\ last.op = "connect_calculations"
    /\ last.res = "ValueError"
    /\ last.a \in DOMAIN nodes
    /\ last.b \notin DOMAIN nodes
    /\ edges # EmptyMap
    /\ input_variables # <<>>

\* C11: remove_calculation_node on a node of the graph removes, in that one
\* call, the node, every edge into or out of it and its function, and leaves
\* every other node, edge and function as it was; an ordering asked for right
\* after it lists exactly the nodes that are left, so neither the order nor
\* the entry points nor the exit points nor the node and edge listings hold
\* the removed node.
C11_RemoveStep ==
    (/\ last'.op = "remove_calculation_node"
     /\ gcalls' = gcalls + 1
     /\ last'.a \in DOMAIN nodes) =>
        LET n == last'.a
            kept == {e \in DOMAIN edges : e[1] # n /\ e[2] # n}
        IN  /\ last'.res = "True"
            /\ nodes' = [m \in DOMAIN nodes \ {n} |-> nodes[m]]
            /\ edges' = [e \in kept |-> edges[e]]
            /\ function_registry' =
                  [m \in DOMAIN function_registry \ {n} |-> function_registry[m]]

C11_AfterRemove ==
    (last.op = "topological_sort" /\ last.gone # None) =>
        /\ last.gone \notin DOMAIN nodes
        /\ \A e \in DOMAIN edges : e[1] # last.gone /\ e[2] # last.gone
        /\ last.res = "ok" =>
              /\ Range(last.order) = DOMAIN nodes
              /\ last.entry \cup last.exit \subseteq DOMAIN nodes
              /\ last.gone \notin Range(last.order) \cup last.entry \cup last.exit

C11_RemoveNode == [](C11_AfterRemove) /\ [][C11_RemoveStep]_vars

C11_Witness ==
    /\ last.op = "topological_sort"
    /\ last.res = "ok"
    /\ last.gone # None
    /\ \E e \in DOMAIN last.pre.edges : e[1] = last.gone \/ e[2] = last.gone
    /\ last.order # <<>>

\* a directed cycle: a non-empty set of nodes each with a predecessor in the set
HasCycle ==
    \E S \in SUBSET DOMAIN nodes :
        /\ S # {}
        /\ \A n \in S : \E m \in S : <<m, n>> \in DOMAIN edges

\* C12: an ordering of the graph (the dependency analysis and the flowchart
\* levels) fails exactly when the edges hold a directed cycle, a self-loop
\* included; on an acyclic graph it is a permutation of the nodes that puts u
\* before v for every edge (u, v); the failure is never replaced by some
\* ordering.
C12_OrderOrCycleError ==
    /\ last.op = "topological_sort" =>
          IF HasCycle THEN last.res = "NetworkXUnfeasible"
          ELSE /\ last.res = "ok"
               /\ last.order \in Orders(DOMAIN nodes)
               /\ \A e \in DOMAIN edges :
                     \E i, j \in 1..Len(last.order) :
                         i < j /\ last.order[i] = e[1] /\ last.order[j] = e[2]
    /\ last.op = "generate_flowchart" =>
          IF HasCycle THEN last.res # "ok"
          ELSE /\ last.res = "ok"
               /\ DOMAIN last.levels = DOMAIN nodes
               /\ \A e \in DOMAIN edges : last.levels[e[1]] < last.levels[e[2]]

\* C13: execute_calculation fails with the unknown-node ValueError when the id
\* is no node of the graph; else with the missing-variables ValueError, listing
\* the declared input variables that were not supplied, in declaration order,
\* and without calling the function; else it calls the function with exactly
\* the supplied names that are parameters of the function.
C13_Execute ==
    last.op = "execute_calculation" =>
        IF last.a \notin DOMAIN nodes
        THEN last.res = "ValueError: no function" /\ ~last.invoked
        ELSE LET required == nodes[last.a].input_variables
                 Absent(v) == v \notin last.values
             IN  IF \E k \in 1..Len(required) : Absent(required[k])
                 THEN /\ last.res = "ValueError: missing"
                      /\ last.missing = SelectSeq(required, Absent)
                      /\ ~last.invoked
                 ELSE /\ last.invoked
                      /\ last.args = {v \in last.values :
                                         v \in Parameters(function_registry[last.a])}

\* C14: a variable name has at most one stored record: it is never in both
\* the input map and the intermediate map, and after add_variable the name
\* resolves to the record just supplied and to nothing else.
C14_State ==
    /\ DictKeys(input_variables) \cap DictKeys(intermediate_variables) = {}
    /\ \A d \in {input_variables, intermediate_variables} :
          \A i, j \in 1..Len(d) : d[i].key = d[j].key => i = j

C14_AddStep ==
    (last'.op = "add_variable" /\ gcalls' = gcalls + 1) =>
        LET name == last'.a
            kind == last'.b
            Of(d) == {d[k].val : k \in {i \in 1..Len(d) : d[i].key = name}}
        IN  Of(input_variables') \cup Of(intermediate_variables') =
                {[name |-> name, type |-> kind]}

C14_UniqueName == [](C14_State) /\ [][C14_AddStep]_vars

EditOps ==
    {"remove_variable", "update_variable", "remove_calculation_node",
     "update_calculation_node", "remove_connection"}

\* does the target of the call exist, in the state the call finds
TargetExists(rec) ==
    CASE rec.op \in {"remove_variable", "update_variable"} ->
             rec.a \in DictKeys(input_variables) \cup DictKeys(intermediate_variables)
      [] rec.op \in {"remove_calculation_node", "update_calculation_node"} ->
             rec.a \in DOMAIN nodes
      [] rec.op = "remove_connection" -> <<rec.a, rec.b>> \in DOMAIN edges

\* C15: remove_variable, update_variable, remove_calculation_node,
\* update_calculation_node and remove_connection return True exactly when
\* their target exists when they are called; when it does not they return
\* False, raise nothing and change no part of the engine.
C15_FoundOrNot ==
    [][ (last'.op \in EditOps /\ gcalls' = gcalls + 1) =>
            IF TargetExists(last')
            THEN last'.res = "True"
            ELSE last'.res = "False" /\ UNCHANGED engineVars
      ]_vars

C15_Witness ==
    /\ last.op = "remove_connection"
    /\ last.res = "False"
    /\ last.a \in DOMAIN nodes /\ last.b \in DOMAIN nodes
    /\ edges # EmptyMap
    /\ input_variables # <<>>

\* C20: clear_system leaves the engine as it was constructed: no variables,
\* no nodes, no edges, no functions, no impact source; set_impact_source
\* always succeeds, replaces the impact source and changes nothing else.
C20_ResetAndImpactSource ==
    [][ /\ (last'.op = "clear_system" /\ gcalls' = gcalls + 1) =>
              /\ last'.res = "ok"
              /\ nodes' = EmptyMap /\ edges' = EmptyMap
              /\ function_registry' = EmptyMap
              /\ input_variables' = <<>> /\ intermediate_variables' = <<>>
              /\ impact_source' = NoImpactSource
        /\ (last'.op = "set_impact_source" /\ gcalls' = gcalls + 1) =>
              /\ last'.res = "ok"
              /\ impact_source' # NoImpactSource
              /\ impact_source'.description = last'.a
              /\ impact_source'.convention = last'.b
              /\ UNCHANGED <<nodes, edges, function_registry, input_variables,
                             intermediate_variables>>
      ]_vars

C20_Witness ==
    /\ last.op = "clear_system"
    /\ last.n >= 5
    /\ engineVars = <<EmptyMap, EmptyMap, EmptyMap, <<>>, <<>>, NoImpactSource>>

(***************************************************************************)
(* Properties of the Monitor's critical section                            *)
(***************************************************************************)
\* positions between the append of an event and the end of its fan-out
InFanOut(t) == pc[t] \in {"add_event", "notify"}

C17_State ==
    \A t \in Threads :
        InFanOut(t) =>
            /\ lock = t
            /\ \A u \in Threads \ {t} : ~InFanOut(u)

C17_Step ==
    /\ appended' = appended + 1 =>
          \E t \in Threads : lock = t /\ pc[t] = "add_event"
    /\ \A t \in Threads :
          (pc[t] = "notify" /\ gh'[t].notified # gh[t].notified) =>
              /\ lock = t
              /\ loc[t].ev.seq = appended
              /\ events # <<>> /\ events[Len(events)] = loc[t].ev

\* C17: the append of an event and its whole fan-out run under the lock: no
\* two threads are between append and end of fan-out at once, every append is
\* made by the lock holder, and every callback invocation hands over the event
\* appended last; so each subscriber is handed events in append order.
C17_AppendAndFanOutAtomic == [](C17_State) /\ [][C17_Step]_vars

C17_Witness ==
    \E t, u \in Threads :
        /\ t # u
        /\ pc[t] = "notify" /\ Len(gh[t].notified) = 1 /\ Len(subscribers) = 2
        /\ call[u].op \in LoggingOps /\ pc[u] = "acquire"
        /\ appended >= 2

Occurrences(q, x) == Cardinality({k \in 1..Len(q) : q[k] = x})

\* C18: when a logging call has fanned out its event, every callback that
\* stayed in the subscriber list (once) from the moment the call took the lock
\* to the end of the fan-out has been invoked exactly once with the event,
\* whatever other threads subscribed or unsubscribed meanwhile.
C18_DeliveredOnceToStableSubscribers ==
    \A t \in Threads :
        (/\ call[t].op \in LoggingOps
         /\ pc[t] = "release"
         /\ appended = gh[t].pre.appended + 1) =>
            \A cb \in gh[t].stable :
                Occurrences(subscribers, cb) = 1 =>
                    Occurrences(gh[t].notified, cb) = 1

(***************************************************************************)
(* Properties of the singleton                                             *)
(***************************************************************************)
C19_State ==
    /\ instance = TheMonitor
    /\ initialized
    /\ \A t \in Threads :
          /\ pc[t] = "init_check" => loc[t].self = TheMonitor
          /\ result[t] \in {"none", "ok", TheMonitor}

C19_Step ==
    \A t \in Threads :
        (call[t].op = "AgentMonitor" /\ pc'[t] # pc[t]) =>
            /\ UNCHANGED <<events, subscribers, active_sessions, lock, classVars>>
            /\ pc'[t] = "idle" => result'[t] = TheMonitor

\* C19: every AgentMonitor() call, racing ones included, returns the instance
\* made when the module was imported, and no such call replaces or empties
\* the log, the session map, the subscriber list or the lock.
C19_Singleton == [](C19_State) /\ [][C19_Step]_vars

C19_Witness ==
    \E t, u \in Threads :
        /\ t # u
        /\ result[t] = TheMonitor
        /\ pc[u] = "init_check"
        /\ events # <<>>
        /\ active_sessions # EmptyMap

(***************************************************************************)
(* Properties of the analysis run                                          *)
(***************************************************************************)
\* the run's get_session_stats has its result in hand
StatsInHand ==
    /\ call[Runner].op = "get_session_stats"
    /\ pc[Runner] = "release"

\* connect("n1", "n1") failed, or it was accepted and the ordering failed
SelfLoopRejected ==
    \/ last.op = "connect_calculations" /\ last.res = "ValueError"
    \/ last.op = "topological_sort" /\ last.res = "NetworkXUnfeasible"

C21_LogTimeOrdered ==
    \A i, j \in 1..Len(events) :
        i < j => events[i].timestamp <= events[j].timestamp

(***************************************************************************)
(* Properties of the streaming adapter's output                            *)
(***************************************************************************)
\* C22: the adapter emits each log event at most once: an event emitted in
\* the initial replay or in one iteration's delta is not emitted again later,
\* under any interleaving of log_agent_action calls with the adapter's steps.
C22_EmittedAtMostOnce ==
    \A i, j \in 1..Len(emitted) : emitted[i] = emitted[j] => i = j

\* the messages of one kind among those yielded
Yielded(kind) == {k \in 1..Len(yielded) : yielded[k] = kind}

\* an internal error has ended the adapter
StreamFailed == spc \in {"closed", "raised"}

C23_State ==
    /\ spc = "sleep" =>
          /\ Cardinality(Yielded("heartbeat")) = 1
          /\ yielded[Len(yielded)] = "heartbeat"
          /\ \A k \in 1..(Len(yielded) - 1) : yielded[k] = "data"
    /\ StreamFailed =>
          /\ Cardinality(Yielded("error")) = 1
          /\ yielded[Len(yielded)] = "error"

C23_Step == StreamFailed => UNCHANGED streamVars

\* C23: every iteration of the adapter's loop that completes without error
\* yields exactly one heartbeat, after the iteration's event messages, with
\* or without new events; when an internal error occurs the adapter yields
\* exactly one error message, as its last message, and nothing after it.
C23_HeartbeatOrFinalError == [](C23_State) /\ [][C23_Step]_vars

(***************************************************************************)
(* Properties of clear_old_events                                          *)
(***************************************************************************)
\* thread t takes a step of its clear_old_events call
ClearingStep(t) ==
    /\ pc'[t] # pc[t]
    /\ IF pc[t] = "idle" THEN call'[t].op = "clear_old_events"
       ELSE call[t].op = "clear_old_events"

C24_Step ==
    \A t \in Threads :
        ClearingStep(t) =>
            /\ active_sessions' = active_sessions
            /\ subscribers' = subscribers
            /\ gh'[t].notified = <<>>
            /\ appended' = appended
            \* the cutoff is the time of the call minus the age
            /\ pc[t] = "idle" => loc'[t].cutoff = now - call'[t].age
            \* the rebuilt log, as the call leaves it
            /\ pc'[t] = "release" =>
                  LET before == gh[t].pre.events
                      Newer(e) == e.timestamp > loc[t].cutoff
                  IN  /\ events' = SelectSeq(before, Newer)
                      /\ Len(events') <= Len(before)
                      /\ \A e \in Range(before) :
                            e.timestamp <= loc[t].cutoff => e \notin Range(events')

\* C24: clear_old_events(max_age) removes exactly the events whose timestamp
\* is not newer than the time of the call minus max_age and keeps the others
\* in their order; the log it leaves is never longer than the log it found,
\* and no step of it changes the session map or the subscriber list, or
\* notifies a subscriber.
C24_ClearOldEvents == [][C24_Step]_vars

\* a clear has dropped one event and kept a newer one, with a callback
\* subscribed and a session registered
C24_Witness ==
    \E t \in Threads :
        /\ call[t].op = "clear_old_events"
        /\ pc[t] = "release"
        /\ Len(gh[t].pre.events) = 2
        /\ Len(events) = 1
        /\ subscribers # <<>>
        /\ DOMAIN active_sessions # {}

(***************************************************************************)
(* Properties of get_session_stats                                         *)
(***************************************************************************)
\* the sum of the values of a dict of counts
RECURSIVE SumOf(_)
SumOf(d) ==
    IF DOMAIN d = {} THEN 0
    ELSE LET k == CHOOSE x \in DOMAIN d : TRUE
         IN  d[k] + SumOf([x \in DOMAIN d \ {k} |-> d[x]])

\* thread t has the result of its get_session_stats in hand, still under the lock
StatsReady(t) ==
    /\ call[t].op = "get_session_stats"
    /\ pc[t] = "release"

C25_State ==
    \A t \in Threads :
        StatsReady(t) =>
            LET s == call[t].sid
                st == loc[t].stats
                mine == {k \in 1..Len(events) : events[k].session_id = s}
            IN  IF s \in DOMAIN active_sessions
                THEN /\ st.total_events = Cardinality(mine)
                     /\ SumOf(st.events_by_type) = st.total_events
                     /\ SumOf(st.events_by_level) = st.total_events
                     /\ st.agents_involved =
                           {events[k].agent_type :
                               k \in {m \in mine : events[m].type = "agent_action"}}
                ELSE st = EmptyMap

C25_Step ==
    \A t \in Threads :
        (pc'[t] # pc[t] /\ (IF pc[t] = "idle" THEN call'[t].op ELSE call[t].op)
                               = "get_session_stats") =>
            /\ events' = events
            /\ active_sessions' = active_sessions
            /\ appended' = appended

\* C25: get_session_stats(s) of a registered session is computed from the
\* events of the log tagged s: its total is their number, the counts by type
\* and the counts by level each sum to the total, and the agent set is the
\* set of the agent types of those events; for an id that is not registered
\* the result is empty; no step of the call changes the log or the session map.
C25_SessionStats == [](C25_State) /\ [][C25_Step]_vars

\* statistics of a registered session with two events of two types in the log
C25_Witness ==
    \E t \in Threads :
        /\ StatsReady(t)
        /\ call[t].sid \in DOMAIN active_sessions
        /\ loc[t].stats.total_events = 2
        /\ Cardinality(DOMAIN loc[t].stats.events_by_type) = 2
        /\ loc[t].stats.agents_involved # {}

(***************************************************************************)
(* Properties of the engine's frames                                       *)
(***************************************************************************)
VariableOps == {"add_variable", "update_variable", "remove_variable"}

GraphOps == {"add_calculation_node", "connect_calculations",
             "remove_calculation_node", "update_calculation_node",
             "remove_connection"}

\* the step is an engine call
EngineCall == gcalls' = gcalls + 1

C26_Step ==
    EngineCall =>
        /\ last'.op \in VariableOps =>
              /\ nodes' = nodes
              /\ edges' = edges
              /\ function_registry' = function_registry
        /\ last'.op \in GraphOps =>
              /\ input_variables' = input_variables
              /\ intermediate_variables' = intermediate_variables

\* C26: add_variable, update_variable and remove_variable leave the nodes
\* (with their input_variables and output_variable), the edges and the
\* function registry as they are, also when nodes or edges name the
\* variable; node and edge operations leave the variable registry as it is.
C26_NoCascade == [][C26_Step]_vars

\* a variable has been removed that a node produces, a node consumes and an
\* edge passes
C26_Witness ==
    /\ last.op = "remove_variable"
    /\ last.res = "True"
    /\ \E n \in DOMAIN nodes : nodes[n].output_variable = last.a
    /\ \E n \in DOMAIN nodes : last.a \in Range(nodes[n].input_variables)
    /\ \E e \in DOMAIN edges : edges[e].variable_passed = last.a

\* the attributes of a node other than the one named key
OtherAttrs(attrs, key) ==
    [keys |-> attrs.keys,
     description |-> IF key = "description" THEN None ELSE attrs.description,
     function_name |-> IF key = "function_name" THEN None ELSE attrs.function_name,
     output_variable |-> IF key = "output_variable" THEN None ELSE attrs.output_variable,
     input_variables |-> IF key = "input_variables" THEN <<>> ELSE attrs.input_variables]

C27_Step ==
    (EngineCall /\ last'.op = "update_calculation_node") =>
        LET n == last'.a
            key == last'.b
        IN  /\ function_registry' = function_registry
            /\ DOMAIN nodes' = DOMAIN nodes
            /\ edges' = edges
            /\ \A m \in DOMAIN nodes \ {n} : nodes'[m] = nodes[m]
            /\ n \in DOMAIN nodes =>
                  /\ OtherAttrs(nodes'[n], key) = OtherAttrs(nodes[n], key)
                  /\ key \notin nodes[n].keys => nodes'[n] = nodes[n]

\* every node of this specification was bound to the function f
C27_State ==
    (last.op = "execute_calculation" /\ last.invoked) => last.b = "f"

\* C27: update_calculation_node(node_id, key=value) writes only the named
\* attribute, and only if the node already has it; it leaves the function
\* bound to node_id, which is the one execute_calculation invokes, the node
\* set and the edge set as they are.
C27_UpdateNodeMetadataOnly == [](C27_State) /\ [][C27_Step]_vars

\* a node whose function_name was rewritten is executed and runs f
C27_Witness ==
    /\ last.op = "execute_calculation"
    /\ last.invoked
    /\ nodes[last.a].function_name = "g"
    /\ edges # EmptyMap

\* the step is an execute_calculation call
ExecuteCall == last'.op = "execute_calculation" /\ last' # last

C28_Step ==
    ExecuteCall =>
        /\ UNCHANGED engineVars
        /\ last'.invoked =>
              /\ last'.n = 1
              /\ last'.b = function_registry[last'.a]
              /\ (last'.b = "raiser" /\ Parameters(last'.b) \subseteq last'.args) =>
                    last'.res = "ZeroDivisionError"
        /\ ~last'.invoked => last'.n = 0

\* C28: execute_calculation leaves the variable registry, the nodes, the
\* edges, the function registry and the impact source as they were, whether
\* it returns, fails before calling the function, or the function raises;
\* the function is called at most once and what it raises is what the
\* caller gets.
C28_ExecuteNoSideEffect == [][C28_Step]_vars

\* the function of a node raised, on an engine that holds variables, an edge
\* and an impact source
C28_Witness ==
    /\ last.op = "execute_calculation"
    /\ last.res = "ZeroDivisionError"
    /\ intermediate_variables # <<>>
    /\ edges # EmptyMap
    /\ impact_source # NoImpactSource

(***************************************************************************)
(* Properties of the read-only projections                                 *)
(***************************************************************************)
\* C29: get_variable_summary reports the current numbers of input and of
\* intermediate variables, get_live_update_data those and the current numbers
\* of nodes and edges; the latest_variables window holds the (at most
\* LatestWindow) most recently added intermediate names, most recent last, so
\* that an intermediate variable added by the call just before, re-added
\* ones included, is its last element.
C29_SummaryAndLiveStats ==
    /\ last.op = "get_variable_summary" =>
          /\ last.stats.total_input_variables = Len(input_variables)
          /\ last.stats.total_intermediate_variables = Len(intermediate_variables)
    /\ last.op = "get_live_update_data" =>
          /\ last.stats.input_variables = Len(input_variables)
          /\ last.stats.intermediate_variables = Len(intermediate_variables)
          /\ last.stats.calculation_nodes = Cardinality(DOMAIN nodes)
          /\ last.stats.connections = Cardinality(DOMAIN edges)
          /\ Len(last.latest) = Min(LatestWindow, Len(intermediate_variables))
          /\ Range(last.latest) \subseteq DictKeys(intermediate_variables)
          /\ last.added # None =>
                /\ last.latest # <<>>
                /\ last.latest[Len(last.latest)] = last.added

(***************************************************************************)
(* Properties of the output variables                                      *)
(***************************************************************************)
\* the nodes that declare the output variable v
Declaring(v) == {n \in DOMAIN nodes : nodes[n].output_variable = v}

C30_State ==
    last.op = "to_llm_readable_text" =>
        /\ \A v \in {"x", "y"} : v \in last.outputs <=> Declaring(v) # {}
        /\ last.outputs \subseteq {"x", "y"}

C30_Step ==
    (EngineCall /\ last'.op = "add_calculation_node") =>
        /\ last'.res = "ok"
        /\ last'.a \in DOMAIN nodes'
        /\ \A m \in DOMAIN nodes \ {last'.a} : nodes'[m] = nodes[m]

\* C30: the set of output variables is computed from the nodes as they are:
\* it holds the non-empty output_variable values of the existing nodes, each
\* once; a node declaring an output another node declares is added without
\* error and leaves the other node as it is; after remove_calculation_node
\* or update_calculation_node a name is in the set exactly while a remaining
\* node declares it.
C30_OutputVariables == [](C30_State) /\ [][C30_Step]_vars

\* two nodes declare the same output, and the set holds the name once
C30_Witness ==
    /\ last.op = "to_llm_readable_text"
    /\ Cardinality(Declaring("x")) = 2
    /\ last.outputs = {"x"}

\* C31: asked for the entry and exit points of a graph that has nodes, the
\* engine returns as entry points exactly the nodes with no incoming edge and
\* as exit points exactly the nodes with no outgoing edge of the current
\* graph; a node with a self-loop is in neither set, an isolated node is in
\* both, and on an acyclic graph both sets are non-empty.
C31_EntryAndExitPoints ==
    last.op = "topological_sort" =>
        /\ last.res = "ok"
        /\ last.entry = {n \in DOMAIN nodes : \A m \in DOMAIN nodes : <<m, n>> \notin DOMAIN edges}
        /\ last.exit = {n \in DOMAIN nodes : \A m \in DOMAIN nodes : <<n, m>> \notin DOMAIN edges}
        /\ \A n \in DOMAIN nodes :
              /\ <<n, n>> \in DOMAIN edges => n \notin last.entry \cup last.exit
              /\ (\A e \in DOMAIN edges : e[1] # n /\ e[2] # n) =>
                    n \in last.entry \cap last.exit
        /\ ~HasCycle => last.entry # {} /\ last.exit # {}

\* C32: once clear_old_events has shortened the log under a running adapter,
\* whenever a polling iteration of the adapter ends, every event that was
\* appended after the shrink, between the previous read of the log length and
\* this iteration's read, and that is still in the log, has been emitted.
C32_DeliveredAfterShrink ==
    (spc = "sleep" /\ clearedIds # {} /\ ~marks.raced) =>
        \A e \in Range(events) :
            (/\ e.seq \in (marks.prev + 1)..marks.cur
             /\ \A c \in clearedIds : e.seq > c) => e.seq \in Range(emitted)

\* C33: the Monitor is deadlock-free: every Monitor call a thread has entered
\* returns in the end, also when a subscriber callback invoked during the
\* fan-out calls a Monitor operation that takes the lock; no thread waits for
\* the lock for ever.
C33_EveryCallReturns ==
    \A t \in Threads : (pc[t] # "idle") ~> (pc[t] = "idle")

C34_Step ==
    \A t \in Threads :
        (pc[t] = "un_remove" /\ pc'[t] = "idle" /\ result'[t] = "ok") =>
            call[t].cb \notin Range(subscribers')

C34_State ==
    \A t \in Threads :
        (/\ call[t].op \in LoggingOps
         /\ pc[t] = "release"
         /\ appended = gh[t].pre.appended + 1
         /\ ~gh[t].subsChanged) =>
            \A cb \in Range(subscribers) : Occurrences(gh[t].notified, cb) = 1

\* C34: when unsubscribe(cb) returns, cb is in the subscriber list no more,
\* however often subscribe(cb) was called before, so that no event appended
\* afterwards is handed to it; and while cb is subscribed, a fan-out over a
\* list that nobody changes meanwhile invokes cb exactly once with the event.
C34_UnsubscribedForGood == [](C34_State) /\ [][C34_Step]_vars

\* events of session s that a log holds
InLog(s, evs) == Cardinality({k \in 1..Len(evs) : evs[k].session_id = s})

C35_Step ==
    \A s \in SessionIds :
        LET had == s \in DOMAIN active_sessions
            has == s \in DOMAIN active_sessions'
            Starting == \E t \in Threads :
                            pc[t] = "ss_set" /\ pc'[t] # "ss_set" /\ call[t].sid = s
            Counting == \E t \in Threads :
                            pc[t] = "la_incr" /\ pc'[t] # "la_incr" /\ call[t].sid = s
        IN  /\ had => has
            /\ has =>
                  IF Starting THEN active_sessions'[s].events_count = 0
                  ELSE /\ had
                       /\ active_sessions'[s].events_count =
                             active_sessions[s].events_count + (IF Counting THEN 1 ELSE 0)

\* C35: a session's events_count changes in two ways only: start_session sets
\* it to 0 and each log_agent_action (log_error included) made with the
\* session's id adds exactly 1; the session_start and session_end events, an
\* eviction from the full log, clear_old_events and the read operations leave
\* it as it is.
C35_EventsCount == [][C35_Step]_vars

\* the count is above the number of the session's events the log holds, after
\* a clear_old_events
C35_Witness ==
    /\ Idle
    /\ clearedIds # {}
    /\ "s1" \in DOMAIN active_sessions
    /\ active_sessions["s1"].events_count >= 1
    /\ active_sessions["s1"].events_count > InLog("s1", events)

\* C36: in every state of the engine the node ids that have a function bound
\* are exactly the nodes of the graph, also after an add_calculation_node
\* that fails while it reads the function's name or signature; so
\* execute_calculation on an id with a bound function finds the node's
\* attributes.
C36_RegistryMatchesGraph ==
    /\ DOMAIN function_registry = DOMAIN nodes
    /\ (last.op = "execute_calculation" /\ last.a \in DOMAIN function_registry) =>
          last.res # "KeyError"

\* C37: every stored variable record agrees with the place it is stored at:
\* after any sequence of add_variable and update_variable calls its name is
\* the key it is stored under and its type names the map (input or
\* intermediate) that holds it; update_variable cannot change the identity
\* or the kind of a variable.
C37_RecordMatchesPlace ==
    /\ \A k \in 1..Len(input_variables) :
          /\ input_variables[k].val.name = input_variables[k].key
          /\ input_variables[k].val.type = "input"
    /\ \A k \in 1..Len(intermediate_variables) :
          /\ intermediate_variables[k].val.name = intermediate_variables[k].key
          /\ intermediate_variables[k].val.type = "intermediate"

C38_Step ==
    /\ (/\ last'.op = "add_calculation_node"
        /\ last'.res = "ok"
        /\ last'.a \in DOMAIN nodes) =>
            /\ function_registry' = [function_registry EXCEPT ![last'.a] = last'.b]
            /\ nodes'[last'.a].function_name = last'.b
            /\ nodes'[last'.a].description = last'.lbl
            /\ DOMAIN nodes' = DOMAIN nodes
            /\ \A m \in DOMAIN nodes \ {last'.a} : nodes'[m] = nodes[m]
            /\ edges' = edges
    /\ (/\ last.op = "add_calculation_node"
        /\ last.res = "ok"
        /\ last'.op = "execute_calculation"
        /\ last'.a = last.a) =>
            /\ last'.invoked
            /\ last'.b = last.b
            /\ last'.res = Outcome(last.b, last'.args)

\* C38: an add_calculation_node that returns, made with an id the graph has
\* already, replaces the function bound to the id and the node's metadata,
\* keeps every edge of the graph, the edges of that node included, and leaves
\* the set of nodes as it is; an execute_calculation of the id that follows
\* calls the function just bound.
C38_ReaddKeepsEdges == [][C38_Step]_vars

\* a node that has edges, so that it was in the graph before, has just been
\* added again with the function raiser and the description d2
C38_Witness ==
    /\ last.op = "add_calculation_node"
    /\ last.res = "ok"
    /\ last.b = "raiser"
    /\ last.lbl = "d2"
    /\ function_registry[last.a] = "raiser"
    /\ \E e \in DOMAIN edges : e[1] = last.a \/ e[2] = last.a

====
